---- MODULE Spec2Model ----
(***************************************************************************)
(* A model of the concurrency substrate of the xtquant proxy gateway:      *)
(*   - TradingCallbackManager (app/services/trading_callback_manager.py):  *)
(*     vendor threads dispatch callbacks into a history list and, through  *)
(*     the event loop, into the asyncio queues of the subscribers;         *)
(*   - the trading WebSocket endpoint (app/routers/websocket.py) that      *)
(*     replays history, subscribes and consumes its queue;                 *)
(*   - TradingService (app/services/trading_service.py): the session       *)
(*     registry, the mode guard, the simulated and real order paths and    *)
(*     the lock-guarded async sequence counter, run on executor workers.   *)
(* The vendor SDK (xtquant) is the environment.                            *)
(***************************************************************************)
EXTENDS Integers, Sequences, FiniteSets, TLC

(***************************************************************************)
(* Bounds of the model.  QueueMaxSize, MaxHistory and ReplayLimit stand    *)
(* for the program's 1000, 100 and 10, scaled down so that full queues,    *)
(* a full history and a truncated replay are reached.  MaxDispatch bounds  *)
(* the callbacks fanned out to the subscribers, MaxAppends the callbacks   *)
(* where the history update is followed statement by statement.            *)
(* max_workers stands for the thread pool's 50, scaled down so that a job  *)
(* waits in the pool's queue; MaxRequests bounds the HTTP requests.        *)
(* max_queue_size stands for the quote subscriptions' 1000, MaxTicks       *)
(* bounds the ticks pushed to a subscription.                              *)
(***************************************************************************)
MaxDispatch == 2
MaxAppends == 3
MaxStreams == 2
MaxLockStreams == 1
MaxHeartbeats == 2
MaxPings == 1
MaxMessages == 2
QueueMaxSize == 1
MaxHistory == 2
ReplayLimit == 1
MaxCalls == 3
MaxClock == 1
MaxRequests == 2
max_workers == 1
MaxKeys == 4
MaxTicks == 3
max_queue_size == 1

VendorThreads == {1, 2}
Accounts == {"A", "B"}
\* account_id is a str; "" and None are both falsy in the code's tests
NoAccount == ""
StreamIds == 1..MaxStreams
Requests == 1..MaxRequests
\* the bearer tokens that requests and the allow-list are drawn from
Keys == 1..MaxKeys

VARIABLES
    \* ---- TradingCallbackManager ----
    event_loop,        \* _event_loop: "unset" | "running" | "closed"
    ws_queues,         \* _ws_queues: account_id -> set of queues
    global_queues,     \* _global_queues: set of queues
    callback_history,  \* _callback_history: list of TradingCallback
    queues,            \* the content of each asyncio.Queue, by queue identity
    loop_ready,        \* coroutines handed to the loop by run_coroutine_threadsafe
    vthread,           \* each vendor thread's position in _dispatch_callback
    dispatch_count,    \* number of _dispatch_callback invocations so far
    \* ---- trading-event streams ----
    stream,            \* each stream's position in websocket_trading_stream
    \* ---- observation (history variables, read by no action guard) ----
    expect,            \* per stream: ids dispatched while it was a global subscriber
    got,               \* per stream: the records ever put into its queue
    delivered,         \* per stream: the records its consumer dequeued, in order
    dropped,           \* per stream: ids evicted from its queue by drop-oldest
    \* ---- settings (read-only after startup) ----
    xtquant_mode,          \* settings.xtquant.mode: "mock" | "dev" | "prod"
    allow_real_trading,    \* settings.xtquant.trading.allow_real_trading
    XTQUANT_AVAILABLE,     \* whether the vendor package could be imported
    \* ---- TradingService ----
    connected_accounts,    \* _connected_accounts: session_id -> connection record
    xt_traders,            \* _xt_traders: session_id -> vendor trader handle
    orders,                \* _orders: order_id -> status
    order_counter,         \* _order_counter
    async_seq_counter,     \* _async_seq_counter
    seq_lock,              \* _seq_lock: the worker holding it, or NoWorker
    worker,                \* each executor worker's position in a service method
    call_count,            \* number of service calls begun so far
    now,                   \* int(datetime.now().timestamp())
    \* ---- the vendor core (environment) ----
    vendor_calls,          \* the vendor primitives invoked, by call
    vendor_seq,            \* the vendor's own async request number
    vendor_order_id,       \* the vendor's last order id
    pending_acks,          \* async responses the vendor has yet to call back with
    \* ---- observation ----
    recent,                \* the last finished calls: what each returned or raised
    seq_returned,          \* the seq of every async response returned, by call, with
                           \* the streams that were subscribed when the call began
    seq_taken,             \* the values _get_next_seq recent, seq_returned, in the order taken
    acked,                 \* the async responses dispatched: [call, seq]
    \* ---- run_sync / run_sync_no_timeout (app/utils/async_utils.py) ----
    handler,               \* each HTTP request's position in its route handler
    job,                   \* the function each request submitted to the thread pool
    fut,                   \* the asyncio future of run_in_executor, by request
    work_queue,            \* the thread pool's queue of jobs not yet started
    \* ---- authentication (app/dependencies.py) ----
    api_keys,              \* settings.security.api_keys
    auth,                  \* the request being authenticated
    \* ---- SubscriptionManager: one quote subscription ----
    quote_streams,         \* the client streams attached to the subscription
    quote_queues,          \* each attached stream's queue of ticks
    tick_count,            \* number of ticks the vendor has pushed so far
    \* ---- observation ----
    quote_unread,          \* per stream: the ticks pushed since attach and not yet read
    quote_read,            \* per stream: the ticks its WebSocket has sent, in order
    \* ---- the vendor's trader objects (environment) ----
    started_traders,       \* the traders whose thread was started and not stopped
    callback_traders,      \* the traders a callback handler was registered on
    \* ---- TradingCallbackManager: the subscriber lock and stop() ----
    ws_lock,               \* the vendor thread inside `with self._ws_lock`, {} when free
    stop_pc,               \* "none", "lock" (stop() waits for the lock), "done"
    \* ---- the clients of the trading-event streams ----
    rpc_streams,           \* the streams served by StreamTradingCallbacks (the others: WebSocket)
    client_gone,           \* the streams whose client has disconnected
    sync_queue,            \* per RPC stream: the queue.Queue between its two threads
    sent,                  \* per WebSocket stream: the envelopes written to the client
    \* ---- async_utils: the module's pool ----
    executor,              \* _executor: "none" or "open"
    executor_shut,         \* shutdown_executor() has run
    late_jobs,             \* the requests whose job was submitted after that
    \* ---- receive_messages, the reader task of a WebSocket ----
    inbox,                 \* per stream: the kinds of the messages its client has sent
    reader_ended,          \* the streams whose reader task has returned
    \* ---- websocket_quote_stream, the opening of a quote WebSocket ----
    subscriptions,         \* the identifiers the subscription manager knows
    quote_pc,              \* per stream: "none", "connected", "rejected"
    quote_sub,             \* per stream: the subscription identifier of its URL
    quote_sent,            \* per stream: the envelopes written before the quotes
    \* ---- TradingCallbackHandler.on_disconnected ----
    lost_traders           \* the traders whose vendor connection has dropped

dvars == <<event_loop, ws_queues, global_queues, callback_history, queues,
           loop_ready, vthread, dispatch_count, stream,
           expect, got, delivered, dropped>>

tvars == <<xtquant_mode, allow_real_trading, XTQUANT_AVAILABLE, connected_accounts,
           xt_traders, orders, order_counter, async_seq_counter, seq_lock, worker,
           call_count, now, vendor_calls, vendor_seq, vendor_order_id, pending_acks,
           recent, seq_returned, seq_taken, acked>>

avars == <<handler, job, fut, work_queue>>

kvars == <<api_keys, auth>>

qvars == <<quote_streams, quote_queues, tick_count, quote_unread, quote_read>>

vvars == <<started_traders, callback_traders>>

lockvars == <<ws_lock, stop_pc>>

cvars == <<rpc_streams, client_gone, sync_queue, sent>>

evars == <<executor, executor_shut, late_jobs>>

rvars == <<inbox, reader_ended>>

uvars == <<subscriptions, quote_pc, quote_sub, quote_sent>>

gvars == <<lost_traders>>

zvars == <<uvars, gvars>>

lvars == <<lockvars, cvars, evars, rvars, zvars>>

xvars == <<avars, kvars, qvars, vvars, lvars>>

vars == <<dvars, tvars, xvars>>

----------------------------------------------------------------------------
(* Helpers *)

\* every order in which a Python set can be iterated
Orders(S) == {o \in [1..Cardinality(S) -> S] : \A i, j \in DOMAIN o : i # j => o[i] # o[j]}

\* Python's lst[-n:]
PySliceLast(lst, n) ==
    IF n = 0 \/ Len(lst) <= n THEN lst
    ELSE SubSeq(lst, Len(lst) - n + 1, Len(lst))

RemoveAt(s, i) == SubSeq(s, 1, i - 1) \o SubSeq(s, i + 1, Len(s))

\* Python dicts: {}, d[k] = v, del d[k]
EmptyDict == [k \in {} |-> {}]

DictSet(d, k, v) == [x \in DOMAIN d \cup {k} |-> IF x = k THEN v ELSE d[x]]

DictDel(d, k) == [x \in DOMAIN d \ {k} |-> d[x]]

----------------------------------------------------------------------------
(* TradingCallbackManager *)

\* TradingCallback(callback_type, account_id, timestamp, data, seq); id stands
\* for the object's identity (its timestamp and payload)
TradingCallback(id, callback_type, account_id, seq) ==
    [id |-> id, callback_type |-> callback_type, account_id |-> account_id, seq |-> seq]

\* seq=None
NoSeq == -1

\* the vendor events the handler receives: on_connected (account_id=""),
\* on_stock_order and on_stock_trade
CallbackInputs ==
    {[callback_type |-> "connected", account_id |-> NoAccount],
     [callback_type |-> "order", account_id |-> "A"],
     [callback_type |-> "trade", account_id |-> "B"]}

IdleThread == [pc |-> "idle", callback |-> <<>>, slice |-> <<>>]

\* threads are interchangeable: of two idle threads the lower one is called
MayEnter(t) ==
    /\ vthread[t].pc = "idle"
    /\ \A u \in VendorThreads : u < t => vthread[u].pc # "idle"

\* the lifespan has handed the loop to the manager: requests are served, and
\* the vendor calls back, only after that
AfterStartup == event_loop # "unset"

\* asyncio.Queue(maxsize=1000).full()
queue_full(content) == Len(content) >= QueueMaxSize

\* asyncio.Queue.put_nowait: raises QueueFull on a full queue
put_nowait(content, data) ==
    IF queue_full(content) THEN [raised |-> TRUE, content |-> content]
    ELSE [raised |-> FALSE, content |-> Append(content, data)]

\* asyncio.Queue.get_nowait: removes the oldest item, raises QueueEmpty on an
\* empty queue
get_nowait(content) ==
    IF content = <<>> THEN [raised |-> TRUE, content |-> content]
    ELSE [raised |-> FALSE, content |-> Tail(content)]

_async_put_unbounded(content, data) == Append(content, data)

\* a put that keeps a full queue as it is and discards the new record
_async_put_drop_new(content, data) == put_nowait(content, data).content

\* _async_put: put_nowait; on QueueFull get_nowait then put_nowait again, any
\* exception of these two being swallowed (lines 403-411)
_async_put(content, data) ==
    LET first == put_nowait(content, data)
        removed == get_nowait(content)
        second == put_nowait(removed.content, data)
    IN IF ~first.raised THEN first.content
       ELSE IF removed.raised THEN content
       ELSE second.content

\* the id _async_put evicts, if any
Evicted(content) == IF queue_full(content) THEN {Head(content).id} ELSE {}

\* _put_to_queue: hand the coroutine to the loop unless it is unset or closed
_put_to_queue_unchecked(ready, q, data) == Append(ready, [queue |-> q, data |-> data])

\* if self._event_loop and not self._event_loop.is_closed() (line 392)
_put_to_queue(ready, q, data) ==
    IF event_loop = "running" THEN Append(ready, [queue |-> q, data |-> data])
    ELSE ready

RECURSIVE PutAll(_, _, _)
PutAll(ready, order, data) ==
    IF order = <<>> THEN ready
    ELSE PutAll(_put_to_queue(ready, Head(order), data), Tail(order), data)

AccountTargetsAll(account_id) == UNION {ws_queues[a] : a \in DOMAIN ws_queues}

\* the queues of the account's own subscribers (lines 382-384)
AccountTargets(account_id) ==
    IF account_id # NoAccount /\ account_id \in DOMAIN ws_queues
    THEN ws_queues[account_id] ELSE {}

\* lines 370-372 in one step: append, then keep the last _max_history
history_update(history, callback) ==
    LET appended == Append(history, callback)
    IN IF Len(appended) > MaxHistory THEN PySliceLast(appended, MaxHistory) ELSE appended

\* a vendor thread enters a handler method, which calls _dispatch_callback;
\* the TradingCallback object is built (lines 361-367)
on_callback(t, callback_type, account_id, seq, next_pc) ==
    /\ MayEnter(t)
    /\ dispatch_count' = dispatch_count + 1
    /\ vthread' = [vthread EXCEPT ![t] =
          [pc |-> next_pc,
           callback |-> TradingCallback(dispatch_count + 1, callback_type, account_id, seq),
           slice |-> <<>>]]

\* _dispatch_callback up to the lock (lines 361-372), the history update in one
\* step: used where no other action reads _callback_history in between
DispatchOf(t, in) ==
    /\ dispatch_count < MaxDispatch
    /\ on_callback(t, in.callback_type, in.account_id, NoSeq, "lock")
    /\ callback_history' = history_update(callback_history, vthread'[t].callback)
    /\ UNCHANGED <<event_loop, ws_queues, global_queues, queues, loop_ready, stream,
                   expect, got, delivered, dropped, tvars, xvars>>

Dispatch(t) == \E in \in CallbackInputs : DispatchOf(t, in)

\* a dispatch of the served process
DispatchHistory(t) == AfterStartup /\ Dispatch(t)

\* _dispatch_callback, lines 361-367 only
DispatchEnter(t) ==
    /\ AfterStartup
    /\ dispatch_count < MaxAppends
    /\ \E in \in CallbackInputs :
          on_callback(t, in.callback_type, in.account_id, NoSeq, "append")
    /\ UNCHANGED <<event_loop, ws_queues, global_queues, callback_history, queues,
                   loop_ready, stream, expect, got, delivered, dropped, tvars, xvars>>

\* line 370: self._callback_history.append(callback)
HistoryAppend(t) ==
    /\ vthread[t].pc = "append"
    /\ callback_history' = Append(callback_history, vthread[t].callback)
    /\ vthread' = [vthread EXCEPT ![t].pc = "check"]
    /\ UNCHANGED <<event_loop, ws_queues, global_queues, queues, loop_ready,
                   dispatch_count, stream, expect, got, delivered, dropped, tvars, xvars>>

\* enough dispatches for one to append while another has sliced a full history
MaxRaceAppends == MaxHistory + 2

\* lines 361-370 in one step: the record is made and appended, so the records'
\* ids number the appends
DispatchAppend(t) ==
    /\ AfterStartup
    /\ dispatch_count < MaxRaceAppends
    /\ on_callback(t, "order", NoAccount, NoSeq, "check")
    /\ callback_history' = Append(callback_history, vthread'[t].callback)
    /\ UNCHANGED <<event_loop, ws_queues, global_queues, queues, loop_ready, stream,
                   expect, got, delivered, dropped, tvars, xvars>>

\* line 371: if len(self._callback_history) > self._max_history
HistoryCheck(t) ==
    /\ vthread[t].pc = "check"
    /\ vthread' = [vthread EXCEPT ![t].pc =
          IF Len(callback_history) > MaxHistory THEN "slice" ELSE "lock"]
    /\ UNCHANGED <<event_loop, ws_queues, global_queues, callback_history, queues,
                   loop_ready, dispatch_count, stream, expect, got,
                   delivered, dropped, tvars, xvars>>

\* line 372, right-hand side: self._callback_history[-self._max_history:]
HistorySlice(t) ==
    /\ vthread[t].pc = "slice"
    /\ vthread' = [vthread EXCEPT ![t].pc = "store",
                                  ![t].slice = PySliceLast(callback_history, MaxHistory)]
    /\ UNCHANGED <<event_loop, ws_queues, global_queues, callback_history, queues,
                   loop_ready, dispatch_count, stream, expect, got,
                   delivered, dropped, tvars, xvars>>

\* line 372, the assignment: self._callback_history = <the slice>
HistoryStore(t) ==
    /\ vthread[t].pc = "store"
    /\ callback_history' = vthread[t].slice
    /\ vthread' = [vthread EXCEPT ![t].pc = "lock", ![t].slice = <<>>]
    /\ UNCHANGED <<event_loop, ws_queues, global_queues, queues, loop_ready,
                   dispatch_count, stream, expect, got, delivered, dropped, tvars, xvars>>

\* the streams that are global subscribers, told from the streams' own state
GlobalStreams == {s \in StreamIds :
                    stream[s].pc = "subscribed" /\ stream[s].account_id = NoAccount}

\* lines 380-388: with self._ws_lock: the account's queues, then the global ones
dispatch_locked(t) ==
    /\ vthread[t].pc = "lock"
    /\ \E o1 \in Orders(AccountTargets(vthread[t].callback.account_id)),
          o2 \in Orders(global_queues) :
          loop_ready' = PutAll(loop_ready, o1 \o o2, vthread[t].callback)
    /\ expect' = [s \in StreamIds |->
          IF s \in GlobalStreams /\ event_loop = "running"
          THEN expect[s] \cup {vthread[t].callback.id} ELSE expect[s]]
    /\ vthread' = [vthread EXCEPT ![t] = IdleThread]
    /\ UNCHANGED <<event_loop, ws_queues, global_queues, callback_history, queues,
                   dispatch_count, stream, got, delivered, dropped, tvars>>

\* the locked section as one step of the vendor thread
DispatchLocked(t) == dispatch_locked(t) /\ UNCHANGED xvars

\* which of the coroutines handed to the loop runs next: call_soon_threadsafe
\* appends to the loop's ready queue, which runs in FIFO order
NextReady(ready) == 1

\* the event loop runs one _async_put coroutine to completion (it never awaits)
LoopRunOne ==
    /\ event_loop = "running"
    /\ loop_ready # <<>>
    /\ LET i == NextReady(loop_ready)
           task == loop_ready[i]
       IN /\ queues' = [queues EXCEPT ![task.queue] = _async_put(@, task.data)]
          /\ dropped' = [dropped EXCEPT ![task.queue] = @ \cup Evicted(queues[task.queue])]
          /\ got' = [got EXCEPT ![task.queue] = @ \cup {task.data}]
          /\ loop_ready' = RemoveAt(loop_ready, i)
    /\ UNCHANGED <<event_loop, ws_queues, global_queues, callback_history, vthread,
                   dispatch_count, stream, expect, delivered, tvars, xvars>>

\* the dispatcher's two subscriber collections, _ws_queues and _global_queues
SubscriberSets == [ws |-> ws_queues, global |-> global_queues]

\* subscribe (lines 307-329) with the new queue q, on given collections
subscribe(sets, q, account_id) ==
    IF account_id # NoAccount
    THEN [ws |-> IF account_id \in DOMAIN sets.ws
                 THEN [sets.ws EXCEPT ![account_id] = @ \cup {q}]
                 ELSE [a \in DOMAIN sets.ws \cup {account_id} |->
                          IF a = account_id THEN {q} ELSE sets.ws[a]],
          global |-> sets.global]
    ELSE [ws |-> sets.ws, global |-> sets.global \cup {q}]

unsubscribe_keeps_entry(sets, q, account_id) ==
    IF account_id # NoAccount /\ account_id \in DOMAIN sets.ws
    THEN [ws |-> [sets.ws EXCEPT ![account_id] = @ \ {q}], global |-> sets.global]
    ELSE [ws |-> sets.ws, global |-> sets.global \ {q}]

\* unsubscribe (lines 331-347), on given collections
unsubscribe(sets, q, account_id) ==
    IF account_id # NoAccount /\ account_id \in DOMAIN sets.ws
    THEN [ws |-> IF sets.ws[account_id] \ {q} = {}
                 THEN [a \in DOMAIN sets.ws \ {account_id} |-> sets.ws[a]]
                 ELSE [sets.ws EXCEPT ![account_id] = @ \ {q}],
          global |-> sets.global]
    ELSE [ws |-> sets.ws, global |-> sets.global \ {q}]

\* subscribe, on _ws_queues
subscribe_ws(q, account_id) == subscribe(SubscriberSets, q, account_id).ws

\* subscribe, on _global_queues
subscribe_global(q, account_id) == subscribe(SubscriberSets, q, account_id).global

\* unsubscribe, on _ws_queues
unsubscribe_ws(q, account_id) == unsubscribe(SubscriberSets, q, account_id).ws

\* unsubscribe, on _global_queues
unsubscribe_global(q, account_id) == unsubscribe(SubscriberSets, q, account_id).global

get_recent_callbacks_first(account_id, limit) ==
    LET callbacks == IF account_id # NoAccount
                     THEN SelectSeq(callback_history, LAMBDA c : c.account_id = account_id)
                     ELSE callback_history
    IN IF Len(callbacks) <= limit THEN callbacks ELSE SubSeq(callbacks, 1, limit)

\* get_recent_callbacks (lines 442-465)
get_recent_callbacks(account_id, limit) ==
    LET callbacks == IF account_id # NoAccount
                     THEN SelectSeq(callback_history, LAMBDA c : c.account_id = account_id)
                     ELSE callback_history
    IN PySliceLast(callbacks, limit)

\* the lifespan startup: set_event_loop(loop) before any request is served
Startup ==
    /\ event_loop = "unset"
    /\ event_loop' = "running"
    /\ UNCHANGED <<ws_queues, global_queues, callback_history, queues, loop_ready,
                   vthread, dispatch_count, stream, expect, got,
                   delivered, dropped, tvars, xvars>>

\* the server stops and its event loop is closed
LoopClose ==
    /\ event_loop = "running"
    /\ event_loop' = "closed"
    /\ UNCHANGED <<ws_queues, global_queues, callback_history, queues, loop_ready,
                   vthread, dispatch_count, stream, expect, got,
                   delivered, dropped, tvars, xvars>>

----------------------------------------------------------------------------
(* Trading-event streams: stream_callbacks and websocket_trading_stream *)

NoStream == [pc |-> "none", account_id |-> NoAccount, history |-> <<>>, snapshot |-> <<>>]

\* streams are interchangeable: they are numbered in the order they start
NextStream(s) ==
    /\ stream[s].pc = "none"
    /\ \A r \in StreamIds : r < s => stream[r].pc # "none"

\* stream_callbacks(account_id) begins: subscribe (line 426)
stream_subscribe(s, account_id) ==
    /\ event_loop = "running"
    /\ ws_queues' = subscribe_ws(s, account_id)
    /\ global_queues' = subscribe_global(s, account_id)
    /\ stream' = [stream EXCEPT ![s].pc = "subscribed", ![s].account_id = account_id]
    /\ UNCHANGED <<event_loop, callback_history, queues, loop_ready, vthread,
                   dispatch_count, expect, got, delivered, dropped, tvars, xvars>>

\* a consumer iterates stream_callbacks(account_id) directly
StreamStart(s, account_id) ==
    /\ NextStream(s)
    /\ stream_subscribe(s, account_id)

\* websocket_trading_stream: accept, the "connected" envelope, then
\* get_recent_callbacks(account_id, limit=10) and the "history" envelope
\* (websocket.py lines 247-269)
StreamOpen(s, account_id) ==
    /\ event_loop = "running"
    /\ NextStream(s)
    /\ stream' = [stream EXCEPT ![s] =
          [pc |-> "opened", account_id |-> account_id,
           history |-> get_recent_callbacks(account_id, ReplayLimit),
           snapshot |-> callback_history]]
    /\ UNCHANGED <<event_loop, ws_queues, global_queues, callback_history, queues,
                   loop_ready, vthread, dispatch_count, expect, got,
                   delivered, dropped, tvars, xvars>>

\* queue.get() returns and the consumer is handed the record (lines 431-432)
StreamGet(s) ==
    /\ event_loop = "running"
    /\ stream[s].pc = "subscribed"
    /\ queues[s] # <<>>
    /\ delivered' = [delivered EXCEPT ![s] = Append(@, Head(queues[s]))]
    /\ queues' = [queues EXCEPT ![s] = Tail(@)]
    /\ UNCHANGED <<event_loop, ws_queues, global_queues, callback_history, loop_ready,
                   vthread, dispatch_count, stream, expect, got, dropped, tvars, xvars>>

\* the consumer goes away: the generator's finally runs unsubscribe (line 440)
StreamClose(s) ==
    /\ event_loop = "running"
    /\ stream[s].pc = "subscribed"
    /\ ws_queues' = unsubscribe_ws(s, stream[s].account_id)
    /\ global_queues' = unsubscribe_global(s, stream[s].account_id)
    /\ stream' = [stream EXCEPT ![s].pc = "closed"]
    /\ UNCHANGED <<event_loop, callback_history, queues, loop_ready, vthread,
                   dispatch_count, expect, got, delivered, dropped, tvars, xvars>>

----------------------------------------------------------------------------
(* TradingService, its methods run on the workers of the thread pool *)

Workers == {1, 2}

\* the account ids the clients connect
ConnectAccounts == {"A"}
NoWorker == 0

\* session_id = f"session_{account_id}_{int(datetime.now().timestamp())}"
SessionId(account_id, ts) == <<account_id, ts>>

\* an identifier no connect has issued
NoSession == <<NoAccount, 0>>

\* order ids: f"mock_order_{n}" and str(<the vendor's order id>)
MockOrderId(n) == <<"mock_order", n>>

VendorOrderId(n) == <<"xt", n>>

NoOrder == <<"", 0>>

StockCodes == {"000001.SZ", "000001"}

\* validate_stock_code: a code with its market suffix
validate_stock_code(stock_code) == stock_code = "000001.SZ"

_should_use_real_trading_prod_only == xtquant_mode = "prod"

\* _should_use_real_trading (lines 112-120)
_should_use_real_trading == xtquant_mode = "prod" /\ allow_real_trading

\* _should_use_real_data (lines 122-130)
_should_use_real_data == XTQUANT_AVAILABLE /\ xtquant_mode \in {"dev", "prod"}

session_never_missing(session_id) == FALSE

\* the check every read and every mutating operation begins with:
\* if session_id not in self._connected_accounts
session_missing(session_id) == session_id \notin DOMAIN connected_accounts

\* the state of the service that a call can change
ServiceState == [connected_accounts |-> connected_accounts, xt_traders |-> xt_traders,
                 orders |-> orders, order_counter |-> order_counter,
                 async_seq_counter |-> async_seq_counter]

IdleWorker == [pc |-> "idle", call |-> 0, op |-> "", session_id |-> NoSession,
               account_id |-> NoAccount, stock_code |-> "", order_id |-> NoOrder,
               order_sysid |-> "", registered |-> FALSE, real |-> FALSE,
               seq |-> 0, tmp |-> 0, error |-> "", pre |-> <<>>, streams |-> {},
               handle |-> 0]

\* the session ids a client can present: the ones issued so far, or another one
SessionArgs == DOMAIN connected_accounts
                 \cup {recent[i].session_id : i \in DOMAIN recent}
                 \cup {NoSession}

\* the order ids a client can present: a tracked one, or a numeric one that
\* the service does not track
OrderArgs == DOMAIN orders \cup {VendorOrderId(0)}

\* int(request.order_id) succeeds
IsNumeric(order_id) == order_id[1] = "xt"

\* OrderResponse (trading_models.py lines 97-109)
OrderResponse(order_id, stock_code, status) ==
    [order_id |-> order_id, stock_code |-> stock_code, side |-> "BUY",
     order_type |-> "LIMIT", volume |-> 100, price |-> 10, status |-> status,
     submitted_time |-> "now", filled_volume |-> 0, filled_amount |-> 0,
     average_price |-> "None"]

\* AsyncOrderResponse and AsyncCancelResponse (trading_models.py lines 199-221)
AsyncResponse(op, message, seq, stock_code, order_id) ==
    IF op = "submit_order_async"
    THEN [success |-> TRUE, message |-> message, seq |-> seq, stock_code |-> stock_code,
          side |-> "BUY", volume |-> 100, price |-> 10]
    ELSE [success |-> TRUE, message |-> message, seq |-> seq, order_id |-> order_id]

\* run_sync hands the method to an idle worker of the pool; the workers are
\* interchangeable: of two idle workers the lower one is taken
BeginCall(w, op, fields) ==
    /\ worker[w].pc = "idle"
    /\ \A u \in Workers : u < w => worker[u].pc # "idle"
    /\ call_count < MaxCalls
    /\ call_count' = call_count + 1
    /\ worker' = [worker EXCEPT ![w] =
          [x \in DOMAIN IdleWorker |->
              IF x \in DOMAIN fields THEN fields[x]
              ELSE IF x = "call" THEN call_count + 1
              ELSE IF x = "op" THEN op
              ELSE IF x = "pre" THEN ServiceState
              ELSE IF x = "streams" THEN {s \in StreamIds : stream[s].pc = "subscribed"}
              ELSE IdleWorker[x]]]

\* the sizes of the session registry and of the vendor-handle map
Sizes(state) == [accounts |-> Cardinality(DOMAIN state.connected_accounts),
                 traders |-> Cardinality(DOMAIN state.xt_traders)]

\* the observation keeps the last three finished calls
Remember(record) ==
    IF Len(recent) < 3 THEN Append(recent, record) ELSE Append(Tail(recent), record)

\* the method returns value (ok) or raises (~ok); post is the state it leaves,
\* given as the caller computes it from the step's own updates
Finish(w, ok, value, post) ==
    /\ recent' = Remember(
          [call |-> worker[w].call, op |-> worker[w].op, ok |-> ok, value |-> value,
           session_id |-> worker[w].session_id, stock_code |-> worker[w].stock_code,
           registered |-> worker[w].registered, real |-> worker[w].real,
           pre |-> Sizes(worker[w].pre), post |-> Sizes(post),
           unchanged |-> post = worker[w].pre])
    /\ seq_returned' = IF ok /\ "seq" \in DOMAIN value
                       THEN seq_returned \cup
                              {[call |-> worker[w].call, seq |-> value.seq,
                                account_id |-> worker[w].account_id,
                                streams |-> worker[w].streams]}
                       ELSE seq_returned
    /\ worker' = [worker EXCEPT ![w] = IdleWorker]

Goto(w, pc) == worker' = [worker EXCEPT ![w].pc = pc]

\* the wall clock advances to the next second
Tick ==
    /\ now < MaxClock
    /\ now' = now + 1
    /\ UNCHANGED <<dvars, xvars, xtquant_mode, allow_real_trading, XTQUANT_AVAILABLE,
                   connected_accounts, xt_traders, orders, order_counter,
                   async_seq_counter, seq_lock, worker, call_count, vendor_calls,
                   vendor_seq, vendor_order_id, pending_acks, recent, seq_returned, seq_taken, acked>>

\* connect_account (lines 138-153) up to the session id (line 164 or 246)
connect_account(w, account_id) ==
    /\ BeginCall(w, "connect_account",
          [pc |-> IF _should_use_real_data THEN "vendor_connect" ELSE "store_account",
           real |-> _should_use_real_data,
           account_id |-> account_id,
           session_id |-> SessionId(account_id, now)])
    /\ UNCHANGED <<dvars, xvars, xtquant_mode, allow_real_trading, XTQUANT_AVAILABLE,
                   connected_accounts, xt_traders, orders, order_counter,
                   async_seq_counter, seq_lock, now, vendor_calls, vendor_seq,
                   vendor_order_id, pending_acks, recent, seq_returned, seq_taken, acked>>

\* _connect_real_account, lines 165-188: the trader is built, the callback
\* manager registers its handler on it (trading_callback_manager.py, start),
\* the trader is started, and connect() and subscribe() answer; a non-zero
\* answer raises, and connect_account turns the exception into success=False
\* (lines 148-153, 228-230)
VendorConnect(w) ==
    /\ worker[w].pc = "vendor_connect"
    /\ callback_traders' = callback_traders \cup {worker[w].call}
    /\ started_traders' = started_traders \cup {worker[w].call}
    /\ \E answer \in {"ok", "refused"} :
          IF answer = "ok" THEN Goto(w, "store_account") /\ UNCHANGED <<recent, seq_returned>>
          ELSE Finish(w, TRUE, [success |-> FALSE, session_id |-> NoSession], ServiceState)
    /\ UNCHANGED <<dvars, lvars, avars, kvars, qvars, xtquant_mode, allow_real_trading, XTQUANT_AVAILABLE,
                   connected_accounts, xt_traders, orders, order_counter,
                   async_seq_counter, seq_lock, call_count, now, vendor_calls,
                   vendor_seq, vendor_order_id, pending_acks, seq_taken, acked>>

\* self._connected_accounts[session_id] = {...} (lines 211-215 or 247-251); the
\* simulated connect returns here (lines 253-258)
ConnectStoreAccount(w) ==
    /\ worker[w].pc = "store_account"
    /\ connected_accounts' = DictSet(connected_accounts, worker[w].session_id,
          [account_id |-> worker[w].account_id, account |-> worker[w].real])
    /\ IF worker[w].real THEN Goto(w, "store_trader") /\ UNCHANGED <<recent, seq_returned>>
       ELSE Finish(w, TRUE, [success |-> TRUE, session_id |-> worker[w].session_id],
                   [ServiceState EXCEPT !.connected_accounts = connected_accounts'])
    /\ UNCHANGED <<dvars, xvars, xtquant_mode, allow_real_trading, XTQUANT_AVAILABLE,
                   xt_traders, orders, order_counter, async_seq_counter, seq_lock,
                   call_count, now, vendor_calls, vendor_seq, vendor_order_id,
                   pending_acks, seq_taken, acked>>

\* self._xt_traders[session_id] = xt_trader (line 216) and the return
ConnectStoreTrader(w) ==
    /\ worker[w].pc = "store_trader"
    /\ xt_traders' = DictSet(xt_traders, worker[w].session_id, worker[w].call)
    /\ Finish(w, TRUE, [success |-> TRUE, session_id |-> worker[w].session_id],
              [ServiceState EXCEPT !.xt_traders = xt_traders'])
    /\ UNCHANGED <<dvars, xvars, xtquant_mode, allow_real_trading, XTQUANT_AVAILABLE,
                   connected_accounts, orders, order_counter, async_seq_counter,
                   seq_lock, call_count, now, vendor_calls, vendor_seq,
                   vendor_order_id, pending_acks, seq_taken, acked>>

\* disconnect_account, line 263: if session_id in self._xt_traders
disconnect_account(w, session_id) ==
    /\ BeginCall(w, "disconnect_account",
          [pc |-> IF session_id \in DOMAIN xt_traders THEN "stop_trader" ELSE "check_account",
           session_id |-> session_id,
           registered |-> session_id \in DOMAIN connected_accounts])
    /\ UNCHANGED <<dvars, xvars, xtquant_mode, allow_real_trading, XTQUANT_AVAILABLE,
                   connected_accounts, xt_traders, orders, order_counter,
                   async_seq_counter, seq_lock, now, vendor_calls, vendor_seq,
                   vendor_order_id, pending_acks, recent, seq_returned, seq_taken, acked>>

\* lines 264-269: look the trader up, stop() it, del self._xt_traders[session_id];
\* a key that is gone raises KeyError, re-raised as TradingServiceException (275-276)
DisconnectStopTrader(w) ==
    /\ worker[w].pc = "stop_trader"
    /\ IF worker[w].session_id \in DOMAIN xt_traders
       THEN /\ xt_traders' = DictDel(xt_traders, worker[w].session_id)
            /\ started_traders' = started_traders \ {xt_traders[worker[w].session_id]}
            /\ Goto(w, "check_account")
            /\ UNCHANGED <<recent, seq_returned>>
       ELSE /\ Finish(w, FALSE, [error |-> "KeyError"], ServiceState)
            /\ UNCHANGED <<xt_traders, started_traders>>
    /\ UNCHANGED <<dvars, lvars, avars, kvars, qvars, callback_traders, xtquant_mode, allow_real_trading, XTQUANT_AVAILABLE,
                   connected_accounts, orders, order_counter, async_seq_counter,
                   seq_lock, call_count, now, vendor_calls, vendor_seq,
                   vendor_order_id, pending_acks, seq_taken, acked>>

\* line 271: if session_id in self._connected_accounts, else return False (274)
DisconnectCheckAccount(w) ==
    /\ worker[w].pc = "check_account"
    /\ IF worker[w].session_id \in DOMAIN connected_accounts
       THEN Goto(w, "del_account") /\ UNCHANGED <<recent, seq_returned>>
       ELSE Finish(w, TRUE, [success |-> FALSE], ServiceState)
    /\ UNCHANGED <<dvars, xvars, xtquant_mode, allow_real_trading, XTQUANT_AVAILABLE,
                   connected_accounts, xt_traders, orders, order_counter,
                   async_seq_counter, seq_lock, call_count, now, vendor_calls,
                   vendor_seq, vendor_order_id, pending_acks, seq_taken, acked>>

\* lines 272-273: del self._connected_accounts[session_id]; return True
DisconnectDelAccount(w) ==
    /\ worker[w].pc = "del_account"
    /\ IF worker[w].session_id \in DOMAIN connected_accounts
       THEN /\ connected_accounts' = DictDel(connected_accounts, worker[w].session_id)
            /\ Finish(w, TRUE, [success |-> TRUE],
                      [ServiceState EXCEPT !.connected_accounts = connected_accounts'])
       ELSE /\ Finish(w, FALSE, [error |-> "KeyError"], ServiceState)
            /\ UNCHANGED connected_accounts
    /\ UNCHANGED <<dvars, xvars, xtquant_mode, allow_real_trading, XTQUANT_AVAILABLE,
                   xt_traders, orders, order_counter, async_seq_counter, seq_lock,
                   call_count, now, vendor_calls, vendor_seq, vendor_order_id,
                   pending_acks, seq_taken, acked>>

\* a TradingServiceException leaves the method and reaches the router
Raise(w) ==
    /\ worker[w].pc = "raise"
    /\ Finish(w, FALSE, [error |-> worker[w].error], ServiceState)
    /\ UNCHANGED <<dvars, xvars, xtquant_mode, allow_real_trading, XTQUANT_AVAILABLE,
                   connected_accounts, xt_traders, orders, order_counter,
                   async_seq_counter, seq_lock, call_count, now, vendor_calls,
                   vendor_seq, vendor_order_id, pending_acks, seq_taken, acked>>

\* lines 560-566, 636-642, 684-690, 750-756: the trader and the account object
RealSessionError(session_id) ==
    IF session_id \notin DOMAIN xt_traders THEN "no trader"
    ELSE IF session_id \notin DOMAIN connected_accounts THEN "KeyError"
    ELSE IF ~connected_accounts[session_id].account THEN "no account object"
    ELSE ""

\* submit_order (lines 538-556) up to the choice of path
submit_order(w, session_id, stock_code) ==
    /\ BeginCall(w, "submit_order",
          [pc |-> IF session_missing(session_id) THEN "raise"
                  ELSE IF ~validate_stock_code(stock_code) THEN "raise"
                  ELSE IF ~_should_use_real_trading THEN "mock_order_id"
                  ELSE "real_order",
           error |-> IF session_id \notin DOMAIN connected_accounts THEN "not connected"
                     ELSE "invalid stock code",
           session_id |-> session_id,
           stock_code |-> stock_code,
           registered |-> session_id \in DOMAIN connected_accounts])
    /\ UNCHANGED <<dvars, xvars, xtquant_mode, allow_real_trading, XTQUANT_AVAILABLE,
                   connected_accounts, xt_traders, orders, order_counter,
                   async_seq_counter, seq_lock, now, vendor_calls, vendor_seq,
                   vendor_order_id, pending_acks, recent, seq_returned, seq_taken, acked>>

\* _get_mock_order_response, line 604: order_id = f"mock_order_{self._order_counter}"
MockOrderIdRead(w) ==
    /\ worker[w].pc = "mock_order_id"
    /\ worker' = [worker EXCEPT ![w].order_id = MockOrderId(order_counter),
                                ![w].pc = "mock_counter_load"]
    /\ UNCHANGED <<dvars, xvars, xtquant_mode, allow_real_trading, XTQUANT_AVAILABLE,
                   connected_accounts, xt_traders, orders, order_counter,
                   async_seq_counter, seq_lock, call_count, now, vendor_calls,
                   vendor_seq, vendor_order_id, pending_acks, recent, seq_returned, seq_taken, acked>>

\* line 605, self._order_counter += 1: the read
MockCounterLoad(w) ==
    /\ worker[w].pc = "mock_counter_load"
    /\ worker' = [worker EXCEPT ![w].tmp = order_counter, ![w].pc = "mock_counter_store"]
    /\ UNCHANGED <<dvars, xvars, xtquant_mode, allow_real_trading, XTQUANT_AVAILABLE,
                   connected_accounts, xt_traders, orders, order_counter,
                   async_seq_counter, seq_lock, call_count, now, vendor_calls,
                   vendor_seq, vendor_order_id, pending_acks, recent, seq_returned, seq_taken, acked>>

\* line 605, the write, then lines 607-619: the fabricated order is stored and returned
MockCounterStore(w) ==
    /\ worker[w].pc = "mock_counter_store"
    /\ order_counter' = worker[w].tmp + 1
    /\ orders' = DictSet(orders, worker[w].order_id, "SUBMITTED")
    /\ Finish(w, TRUE, OrderResponse(worker[w].order_id, worker[w].stock_code, "SUBMITTED"),
              [ServiceState EXCEPT !.orders = orders', !.order_counter = order_counter'])
    /\ UNCHANGED <<dvars, xvars, xtquant_mode, allow_real_trading, XTQUANT_AVAILABLE,
                   connected_accounts, xt_traders, async_seq_counter, seq_lock,
                   call_count, now, vendor_calls, vendor_seq, vendor_order_id,
                   pending_acks, seq_taken, acked>>

\* _submit_real_order (lines 558-600): xt_trader.order_stock answers an order id
\* or a failure; submit_order re-raises every exception (lines 555-556)
RealOrder(w) ==
    /\ worker[w].pc = "real_order"
    /\ IF RealSessionError(worker[w].session_id) # ""
       THEN /\ Finish(w, FALSE, [error |-> RealSessionError(worker[w].session_id)], ServiceState)
            /\ UNCHANGED <<orders, vendor_calls, vendor_order_id>>
       ELSE /\ vendor_calls' = vendor_calls \cup
                  {[call |-> worker[w].call, primitive |-> "order_stock"]}
            /\ \E answer \in {"ok", "refused"} :
                  IF answer = "ok"
                  THEN /\ vendor_order_id' = vendor_order_id + 1
                       /\ orders' = DictSet(orders, VendorOrderId(vendor_order_id'), "SUBMITTED")
                       /\ Finish(w, TRUE,
                                 OrderResponse(VendorOrderId(vendor_order_id'),
                                               worker[w].stock_code, "SUBMITTED"),
                                 [ServiceState EXCEPT !.orders = orders'])
                  ELSE /\ Finish(w, FALSE, [error |-> "order refused"], ServiceState)
                       /\ UNCHANGED <<orders, vendor_order_id>>
    /\ UNCHANGED <<dvars, xvars, xtquant_mode, allow_real_trading, XTQUANT_AVAILABLE,
                   connected_accounts, xt_traders, order_counter, async_seq_counter,
                   seq_lock, call_count, now, vendor_seq, pending_acks, seq_taken, acked>>

\* cancel_order (lines 621-632) up to the choice of path
cancel_order(w, session_id, order_id) ==
    /\ BeginCall(w, "cancel_order",
          [pc |-> IF session_missing(session_id) THEN "raise"
                  ELSE IF ~_should_use_real_trading THEN "mock_cancel"
                  ELSE "real_cancel",
           error |-> "not connected",
           session_id |-> session_id,
           order_id |-> order_id,
           registered |-> session_id \in DOMAIN connected_accounts])
    /\ UNCHANGED <<dvars, xvars, xtquant_mode, allow_real_trading, XTQUANT_AVAILABLE,
                   connected_accounts, xt_traders, orders, order_counter,
                   async_seq_counter, seq_lock, now, vendor_calls, vendor_seq,
                   vendor_order_id, pending_acks, recent, seq_returned, seq_taken, acked>>

mark_all_cancelled(order_id) == [o \in DOMAIN orders |-> "CANCELLED"]

\* self._orders[request.order_id].status = CANCELLED, when the order is tracked
mark_cancelled(order_id) ==
    IF order_id \in DOMAIN orders THEN [orders EXCEPT ![order_id] = "CANCELLED"] ELSE orders

\* lines 627-630: the intercepted cancel returns True
MockCancel(w) ==
    /\ worker[w].pc = "mock_cancel"
    /\ orders' = mark_cancelled(worker[w].order_id)
    /\ Finish(w, TRUE, [success |-> TRUE], [ServiceState EXCEPT !.orders = orders'])
    /\ UNCHANGED <<dvars, xvars, xtquant_mode, allow_real_trading, XTQUANT_AVAILABLE,
                   connected_accounts, xt_traders, order_counter, async_seq_counter,
                   seq_lock, call_count, now, vendor_calls, vendor_seq,
                   vendor_order_id, pending_acks, seq_taken, acked>>

\* _cancel_real_order (lines 634-656): int(order_id), then cancel_order_stock
RealCancel(w) ==
    /\ worker[w].pc = "real_cancel"
    /\ IF RealSessionError(worker[w].session_id) # ""
       THEN /\ Finish(w, FALSE, [error |-> RealSessionError(worker[w].session_id)], ServiceState)
            /\ UNCHANGED <<orders, vendor_calls>>
       ELSE IF ~IsNumeric(worker[w].order_id)
       THEN /\ Finish(w, FALSE, [error |-> "ValueError"], ServiceState)
            /\ UNCHANGED <<orders, vendor_calls>>
       ELSE /\ vendor_calls' = vendor_calls \cup
                  {[call |-> worker[w].call, primitive |-> "cancel_order_stock"]}
            /\ \E answer \in {"ok", "refused"} :
                  IF answer = "ok"
                  THEN /\ orders' = mark_cancelled(worker[w].order_id)
                       /\ Finish(w, TRUE, [success |-> TRUE],
                                 [ServiceState EXCEPT !.orders = orders'])
                  ELSE /\ Finish(w, FALSE, [error |-> "cancel refused"], ServiceState)
                       /\ UNCHANGED orders
    /\ UNCHANGED <<dvars, xvars, xtquant_mode, allow_real_trading, XTQUANT_AVAILABLE,
                   connected_accounts, xt_traders, order_counter, async_seq_counter,
                   seq_lock, call_count, now, vendor_seq, vendor_order_id,
                   pending_acks, seq_taken, acked>>

\* submit_order_async (lines 660-680) up to the choice of path
submit_order_async(w, session_id, stock_code) ==
    /\ BeginCall(w, "submit_order_async",
          [pc |-> IF session_missing(session_id) THEN "raise"
                  ELSE IF ~validate_stock_code(stock_code) THEN "raise"
                  ELSE IF ~_should_use_real_trading THEN "seq_acquire"
                  ELSE "async_real_check",
           error |-> IF session_id \notin DOMAIN connected_accounts THEN "not connected"
                     ELSE "invalid stock code",
           real |-> _should_use_real_trading,
           session_id |-> session_id,
           stock_code |-> stock_code,
           registered |-> session_id \in DOMAIN connected_accounts])
    /\ UNCHANGED <<dvars, xvars, xtquant_mode, allow_real_trading, XTQUANT_AVAILABLE,
                   connected_accounts, xt_traders, orders, order_counter,
                   async_seq_counter, seq_lock, now, vendor_calls, vendor_seq,
                   vendor_order_id, pending_acks, recent, seq_returned, seq_taken, acked>>

\* the ways a client fills AsyncCancelRequest: an order id, a counter contract
\* number, or neither
CancelArgs == {[order_id |-> o, order_sysid |-> ""] : o \in OrderArgs}
                 \cup {[order_id |-> NoOrder, order_sysid |-> "SYS1"],
                       [order_id |-> NoOrder, order_sysid |-> ""]}

\* cancel_order_async (lines 729-746) up to the choice of path
cancel_order_async(w, session_id, request) ==
    /\ BeginCall(w, "cancel_order_async",
          [pc |-> IF session_missing(session_id) THEN "raise"
                  ELSE IF request.order_id = NoOrder /\ request.order_sysid = "" THEN "raise"
                  ELSE IF ~_should_use_real_trading THEN "seq_acquire"
                  ELSE "async_real_check",
           error |-> IF session_id \notin DOMAIN connected_accounts THEN "not connected"
                     ELSE "order_id or order_sysid required",
           real |-> _should_use_real_trading,
           session_id |-> session_id,
           order_id |-> request.order_id,
           order_sysid |-> request.order_sysid,
           registered |-> session_id \in DOMAIN connected_accounts])
    /\ UNCHANGED <<dvars, xvars, xtquant_mode, allow_real_trading, XTQUANT_AVAILABLE,
                   connected_accounts, xt_traders, orders, order_counter,
                   async_seq_counter, seq_lock, now, vendor_calls, vendor_seq,
                   vendor_order_id, pending_acks, recent, seq_returned, seq_taken, acked>>

\* _submit_real_order_async lines 684-690, _cancel_real_order_async lines 750-756
AsyncRealCheck(w) ==
    /\ worker[w].pc = "async_real_check"
    /\ IF RealSessionError(worker[w].session_id) # ""
       THEN Finish(w, FALSE, [error |-> RealSessionError(worker[w].session_id)], ServiceState)
       ELSE /\ worker' = [worker EXCEPT
                  ![w].pc = "seq_acquire",
                  ![w].account_id = connected_accounts[worker[w].session_id].account_id]
            /\ UNCHANGED <<recent, seq_returned>>
    /\ UNCHANGED <<dvars, xvars, xtquant_mode, allow_real_trading, XTQUANT_AVAILABLE,
                   connected_accounts, xt_traders, orders, order_counter,
                   async_seq_counter, seq_lock, call_count, now, vendor_calls,
                   vendor_seq, vendor_order_id, pending_acks, seq_taken, acked>>

seq_lock_never_held == TRUE

\* threading.Lock: acquire proceeds only while no thread holds the lock
seq_lock_free == seq_lock = NoWorker

\* _get_next_seq, line 108: with self._seq_lock
SeqAcquire(w) ==
    /\ worker[w].pc = "seq_acquire"
    /\ seq_lock_free
    /\ seq_lock' = w
    /\ Goto(w, "seq_load")
    /\ UNCHANGED <<dvars, xvars, xtquant_mode, allow_real_trading, XTQUANT_AVAILABLE,
                   connected_accounts, xt_traders, orders, order_counter,
                   async_seq_counter, call_count, now, vendor_calls, vendor_seq,
                   vendor_order_id, pending_acks, recent, seq_returned, seq_taken, acked>>

\* line 109, self._async_seq_counter += 1: the read
SeqLoad(w) ==
    /\ worker[w].pc = "seq_load"
    /\ worker' = [worker EXCEPT ![w].tmp = async_seq_counter, ![w].pc = "seq_store"]
    /\ UNCHANGED <<dvars, xvars, xtquant_mode, allow_real_trading, XTQUANT_AVAILABLE,
                   connected_accounts, xt_traders, orders, order_counter,
                   async_seq_counter, seq_lock, call_count, now, vendor_calls,
                   vendor_seq, vendor_order_id, pending_acks, recent, seq_returned, seq_taken, acked>>

\* line 109: the write
SeqStore(w) ==
    /\ worker[w].pc = "seq_store"
    /\ async_seq_counter' = worker[w].tmp + 1
    /\ Goto(w, "seq_return")
    /\ UNCHANGED <<dvars, xvars, xtquant_mode, allow_real_trading, XTQUANT_AVAILABLE,
                   connected_accounts, xt_traders, orders, order_counter, seq_lock,
                   call_count, now, vendor_calls, vendor_seq, vendor_order_id,
                   pending_acks, recent, seq_returned, seq_taken, acked>>

\* line 110: return self._async_seq_counter, and the lock is released; the
\* simulated paths return with it (lines 670-678, 739-744)
SeqReturn(w) ==
    /\ worker[w].pc = "seq_return"
    /\ seq_lock' = NoWorker
    /\ seq_taken' = Append(seq_taken, async_seq_counter)
    /\ IF worker[w].real
       THEN /\ worker' = [worker EXCEPT ![w].seq = async_seq_counter,
                                        ![w].pc = "vendor_async"]
            /\ UNCHANGED <<recent, seq_returned>>
       ELSE Finish(w, TRUE,
                   AsyncResponse(worker[w].op, "submitted (Mock)", async_seq_counter,
                                 worker[w].stock_code, worker[w].order_id),
                   ServiceState)
    /\ UNCHANGED <<dvars, xvars, xtquant_mode, allow_real_trading, XTQUANT_AVAILABLE,
                   connected_accounts, xt_traders, orders, order_counter,
                   async_seq_counter, call_count, now, vendor_calls, vendor_seq,
                   vendor_order_id, pending_acks, acked>>

\* the vendor primitive an async call invokes (lines 701, 764, 767)
AsyncPrimitive(w) ==
    IF worker[w].op = "submit_order_async" THEN "order_stock_async"
    ELSE IF worker[w].order_sysid # "" THEN "cancel_order_stock_sysid_async"
    ELSE "cancel_order_stock_async"

\* the callback the vendor later makes for an accepted async request
AsyncAck(w) ==
    [callback_type |-> IF worker[w].op = "submit_order_async" THEN "async_order"
                       ELSE "async_cancel",
     account_id |-> worker[w].account_id,
     seq |-> vendor_seq + 1,
     call |-> worker[w].call]

\* lines 695-727 and 762-781: the vendor call answers the vendor's own request
\* number, or a negative error code; the method returns the seq it took before
VendorAsync(w) ==
    /\ worker[w].pc = "vendor_async"
    /\ IF AsyncPrimitive(w) = "cancel_order_stock_async" /\ ~IsNumeric(worker[w].order_id)
       THEN /\ Finish(w, FALSE, [error |-> "ValueError"], ServiceState)
            /\ UNCHANGED <<vendor_calls, vendor_seq, pending_acks>>
       ELSE /\ vendor_calls' = vendor_calls \cup
                  {[call |-> worker[w].call, primitive |-> AsyncPrimitive(w)]}
            /\ \E answer \in {"ok", "refused"} :
                  IF answer = "ok"
                  THEN /\ vendor_seq' = vendor_seq + 1
                       /\ pending_acks' = Append(pending_acks, AsyncAck(w))
                       /\ Finish(w, TRUE,
                                 AsyncResponse(worker[w].op, "submitted", worker[w].seq,
                                               worker[w].stock_code, worker[w].order_id),
                                 ServiceState)
                  ELSE /\ Finish(w, FALSE, [error |-> "async request refused"], ServiceState)
                       /\ UNCHANGED <<vendor_seq, pending_acks>>
    /\ UNCHANGED <<dvars, xvars, xtquant_mode, allow_real_trading, XTQUANT_AVAILABLE,
                   connected_accounts, xt_traders, orders, order_counter,
                   async_seq_counter, seq_lock, call_count, now, vendor_order_id,
                   seq_taken, acked>>

\* on_order_stock_async_response and on_cancel_order_stock_async_response
\* (lines 178-196): a vendor thread reports the oldest accepted async request,
\* with the vendor's seq, through _dispatch_callback (lines 361-372)
VendorAck(t) ==
    /\ AfterStartup
    /\ pending_acks # <<>>
    /\ LET ack == Head(pending_acks)
       IN /\ on_callback(t, ack.callback_type, ack.account_id, ack.seq, "lock")
          /\ acked' = acked \cup {[call |-> ack.call, seq |-> ack.seq,
                                   id |-> dispatch_count + 1]}
    /\ pending_acks' = Tail(pending_acks)
    /\ callback_history' = history_update(callback_history, vthread'[t].callback)
    /\ UNCHANGED <<event_loop, ws_queues, global_queues, queues, loop_ready, stream,
                   expect, got, delivered, dropped, xvars,
                   xtquant_mode, allow_real_trading, XTQUANT_AVAILABLE,
                   connected_accounts, xt_traders, orders, order_counter,
                   async_seq_counter, seq_lock, worker, call_count, now, vendor_calls,
                   vendor_seq, vendor_order_id, recent, seq_returned, seq_taken>>

----------------------------------------------------------------------------
(* TradingService: the read operations *)

\* the reads that answer from the session registry or with fixed data
\* (get_account_info, get_strategies) and the ones that query the vendor when
\* real data is used
ReadOps == {"get_account_info", "get_asset_info", "get_positions", "get_trades",
            "get_orders", "get_risk_info", "get_strategies"}

\* the vendor's query that returns nothing makes these two reads raise
\* (lines 310-311); the others return an empty list (lines 360, 437, 496)
NeedsData == {"get_asset_info", "get_risk_info"}

\* is_connected (lines 829-831)
is_connected(session_id) == session_id \in DOMAIN connected_accounts

\* a read up to the choice of path: the registry check every read begins with
\* (lines 280, 291, 342, 424, 480, 787, 808), then the branch on
\* _should_use_real_data
read_operation(w, op, session_id) ==
    /\ BeginCall(w, op,
          [pc |-> IF session_missing(session_id) THEN "raise"
                  ELSE IF op = "get_account_info" THEN "read_account_info"
                  ELSE IF op = "get_strategies" THEN "read_fixed"
                  ELSE IF op = "get_risk_info" THEN "risk_asset"
                  ELSE IF _should_use_real_data THEN "vendor_query"
                  ELSE "read_fixed",
           error |-> "not connected",
           real |-> _should_use_real_data,
           session_id |-> session_id,
           registered |-> session_id \in DOMAIN connected_accounts])
    /\ UNCHANGED <<dvars, xvars, xtquant_mode, allow_real_trading, XTQUANT_AVAILABLE,
                   connected_accounts, xt_traders, orders, order_counter,
                   async_seq_counter, seq_lock, now, vendor_calls, vendor_seq,
                   vendor_order_id, pending_acks, recent, seq_returned, seq_taken, acked>>

\* get_account_info, line 283: self._connected_accounts[session_id]["account_info"]
ReadAccountInfo(w) ==
    /\ worker[w].pc = "read_account_info"
    /\ IF worker[w].session_id \in DOMAIN connected_accounts
       THEN Finish(w, TRUE,
                   [account_id |-> connected_accounts[worker[w].session_id].account_id],
                   ServiceState)
       ELSE Finish(w, FALSE, [error |-> "KeyError"], ServiceState)
    /\ UNCHANGED <<dvars, xvars, xtquant_mode, allow_real_trading, XTQUANT_AVAILABLE,
                   connected_accounts, xt_traders, orders, order_counter,
                   async_seq_counter, seq_lock, call_count, now, vendor_calls, vendor_seq,
                   vendor_order_id, pending_acks, seq_taken, acked>>

\* the simulated reads and get_strategies return fixed data (lines 323-333,
\* 389-418, 463-476, 487, 810-827); the simulated get_orders returns
\* list(self._orders.values()) (line 498)
ReadFixed(w) ==
    /\ worker[w].pc = "read_fixed"
    /\ Finish(w, TRUE,
              IF worker[w].op = "get_orders" THEN [orders |-> orders]
              ELSE [data |-> "fixed"],
              ServiceState)
    /\ UNCHANGED <<dvars, xvars, xtquant_mode, allow_real_trading, XTQUANT_AVAILABLE,
                   connected_accounts, xt_traders, orders, order_counter,
                   async_seq_counter, seq_lock, call_count, now, vendor_calls, vendor_seq,
                   vendor_order_id, pending_acks, seq_taken, acked>>

\* get_risk_info, line 792: self.get_asset_info(session_id), which checks the
\* registry again (line 291); every exception is re-raised (lines 802-803)
RiskAsset(w) ==
    /\ worker[w].pc = "risk_asset"
    /\ IF session_missing(worker[w].session_id)
       THEN Finish(w, FALSE, [error |-> "not connected"], ServiceState)
       ELSE /\ Goto(w, IF _should_use_real_data THEN "vendor_query" ELSE "read_fixed")
            /\ UNCHANGED <<recent, seq_returned>>
    /\ UNCHANGED <<dvars, xvars, xtquant_mode, allow_real_trading, XTQUANT_AVAILABLE,
                   connected_accounts, xt_traders, orders, order_counter,
                   async_seq_counter, seq_lock, call_count, now, vendor_calls, vendor_seq,
                   vendor_order_id, pending_acks, seq_taken, acked>>

\* the vendor's query a real read makes (lines 308, 360, 446, 511)
QueryPrimitive(op) ==
    IF op = "get_positions" THEN "query_stock_positions"
    ELSE IF op = "get_trades" THEN "query_stock_trades"
    ELSE IF op = "get_orders" THEN "query_stock_orders"
    ELSE "query_stock_asset"

\* _get_real_asset_info and the other real reads up to the vendor's query
\* (lines 299-309, 350-358, 432-440, 491-499): the trader and the account
\* object are looked up and the query is entered with them
VendorQuery(w) ==
    /\ worker[w].pc = "vendor_query"
    /\ IF RealSessionError(worker[w].session_id) # ""
       THEN /\ Finish(w, FALSE, [error |-> RealSessionError(worker[w].session_id)], ServiceState)
            /\ UNCHANGED vendor_calls
       ELSE /\ worker' = [worker EXCEPT ![w].pc = "query_wait",
                                        ![w].handle = xt_traders[worker[w].session_id]]
            /\ vendor_calls' = vendor_calls \cup
                  {[call |-> worker[w].call, primitive |-> QueryPrimitive(worker[w].op)]}
            /\ UNCHANGED <<recent, seq_returned>>
    /\ UNCHANGED <<dvars, xvars, xtquant_mode, allow_real_trading, XTQUANT_AVAILABLE,
                   connected_accounts, xt_traders, orders, order_counter,
                   async_seq_counter, seq_lock, call_count, now, vendor_seq,
                   vendor_order_id, pending_acks, seq_taken, acked>>

\* the vendor's query returns data, nothing, or raises
VendorQueryReturn(w) ==
    /\ worker[w].pc = "query_wait"
    /\ \E answer \in {"data", "nothing", "exception"} :
          IF answer = "data" \/ (answer = "nothing" /\ worker[w].op \notin NeedsData)
          THEN Finish(w, TRUE, [data |-> answer], ServiceState)
          ELSE Finish(w, FALSE, [error |-> "vendor"], ServiceState)
    /\ UNCHANGED <<dvars, xvars, xtquant_mode, allow_real_trading, XTQUANT_AVAILABLE,
                   connected_accounts, xt_traders, orders, order_counter,
                   async_seq_counter, seq_lock, call_count, now, vendor_calls, vendor_seq,
                   vendor_order_id, pending_acks, seq_taken, acked>>

\* is_connected is called
is_connected_call(w, session_id) ==
    /\ BeginCall(w, "is_connected",
          [pc |-> "is_connected",
           session_id |-> session_id,
           registered |-> session_id \in DOMAIN connected_accounts])
    /\ UNCHANGED <<dvars, xvars, xtquant_mode, allow_real_trading, XTQUANT_AVAILABLE,
                   connected_accounts, xt_traders, orders, order_counter,
                   async_seq_counter, seq_lock, now, vendor_calls, vendor_seq,
                   vendor_order_id, pending_acks, recent, seq_returned, seq_taken, acked>>

\* is_connected returns (line 831)
IsConnectedReturn(w) ==
    /\ worker[w].pc = "is_connected"
    /\ Finish(w, TRUE, [connected |-> is_connected(worker[w].session_id)], ServiceState)
    /\ UNCHANGED <<dvars, xvars, xtquant_mode, allow_real_trading, XTQUANT_AVAILABLE,
                   connected_accounts, xt_traders, orders, order_counter,
                   async_seq_counter, seq_lock, call_count, now, vendor_calls, vendor_seq,
                   vendor_order_id, pending_acks, seq_taken, acked>>

----------------------------------------------------------------------------
(* run_sync and run_sync_no_timeout: blocking calls on the thread pool *)

\* routes of app/routers/data.py and app/routers/trading.py that await
\* run_sync(..., timeout=settings.request_timeout.<kind>)
TimeoutRoutes == {"get_market_data", "download_history_data", "submit_order"}

\* routes that await run_sync_no_timeout(...)
NoTimeoutRoutes == {"download_history_data_batch", "download_financial_data_batch"}

Routes == TimeoutRoutes \cup NoTimeoutRoutes

IdleHandler == [pc |-> "idle", route |-> "", deadline |-> FALSE, response |-> 0,
                job_at_deadline |-> "none", discarded |-> "none"]

\* loop.run_in_executor(executor, func_with_args): the job enters the pool's
\* queue and the handler awaits the asyncio future wrapped around it
\* get_executor: the pool, created when there is none
get_executor == "open"

run_in_executor(r, route, deadline) ==
    /\ handler[r].pc = "idle"
    /\ \A q \in Requests : q < r => handler[q].pc # "idle"
    /\ handler' = [handler EXCEPT ![r] = [IdleHandler EXCEPT !.pc = "await",
                                                             !.route = route,
                                                             !.deadline = deadline]]
    /\ job' = [job EXCEPT ![r] = "queued"]
    /\ fut' = [fut EXCEPT ![r] = "pending"]
    /\ work_queue' = Append(work_queue, r)
    /\ executor' = get_executor
    /\ late_jobs' = IF executor_shut THEN late_jobs \cup {r} ELSE late_jobs
    /\ UNCHANGED <<dvars, tvars, lockvars, cvars, rvars, zvars, executor_shut, kvars, qvars, vvars>>

\* shutdown_executor: _executor.shutdown(wait=False), which neither waits
\* for the running jobs nor cancels the queued ones, then _executor = None
shutdown_executor ==
    /\ ~executor_shut
    /\ executor' = "none"
    /\ executor_shut' = TRUE
    /\ UNCHANGED <<dvars, tvars, lockvars, cvars, rvars, zvars, late_jobs, avars, kvars, qvars, vvars>>

\* await asyncio.wait_for(loop.run_in_executor(...), timeout=timeout)
run_sync(r, route) ==
    /\ route \in TimeoutRoutes
    /\ run_in_executor(r, route, TRUE)

\* return await loop.run_in_executor(executor, func_with_args)
run_sync_no_timeout(r, route) ==
    /\ route \in NoTimeoutRoutes
    /\ run_in_executor(r, route, FALSE)

Running == {q \in Requests : job[q] = "running"}

\* a free pool thread takes the oldest work item; an item whose future was
\* cancelled while it waited is dropped without being run
ExecutorRun(r) ==
    /\ work_queue # <<>>
    /\ r = Head(work_queue)
    /\ Cardinality(Running) < max_workers
    /\ work_queue' = Tail(work_queue)
    /\ job' = [job EXCEPT ![r] = IF job[r] = "cancelled" THEN "cancelled" ELSE "running"]
    /\ UNCHANGED <<dvars, tvars, lvars, kvars, qvars, vvars, handler, fut>>

\* the vendor function returns or raises on its pool thread; it may also
\* never do so
FuncReturns(r, outcome) ==
    /\ job[r] = "running"
    /\ job' = [job EXCEPT ![r] = outcome]
    /\ UNCHANGED <<dvars, tvars, lvars, kvars, qvars, vvars, handler, fut, work_queue>>

_set_state_unguarded(f, outcome) == outcome

\* the outcome of a job is copied to the awaited future unless that future
\* was cancelled
_set_state(f, outcome) == IF f = "cancelled" THEN f ELSE outcome

\* the loop runs the callback the finished job scheduled on it
SetState(r) ==
    /\ job[r] \in {"returned", "raised"}
    /\ fut' = [fut EXCEPT ![r] = _set_state(fut[r], job[r])]
    /\ job' = [job EXCEPT ![r] = "done"]
    /\ handler' = [handler EXCEPT ![r].discarded =
                       IF fut'[r] = job[r] THEN "none" ELSE job[r]]
    /\ UNCHANGED <<dvars, tvars, lvars, kvars, qvars, vvars, work_queue>>

\* the deadline of wait_for elapses before the future is done: the future is
\* cancelled, which cancels the job only if no thread has taken it yet, and
\* asyncio.TimeoutError becomes HTTPException(504)
Deadline(r) ==
    /\ handler[r].pc = "await"
    /\ handler[r].deadline
    /\ fut[r] = "pending"
    /\ fut' = [fut EXCEPT ![r] = "cancelled"]
    /\ job' = [job EXCEPT ![r] = IF job[r] = "queued" THEN "cancelled" ELSE job[r]]
    /\ handler' = [handler EXCEPT ![r].pc = "returned",
                                  ![r].response = 504,
                                  ![r].job_at_deadline = job[r]]
    /\ UNCHANGED <<dvars, tvars, lvars, kvars, qvars, vvars, work_queue>>

\* the awaited future is done: the handler returns the result, or answers
\* 500 from its `except Exception` clause
Resume(r) ==
    /\ handler[r].pc = "await"
    /\ fut[r] \in {"returned", "raised"}
    /\ handler' = [handler EXCEPT ![r].pc = "returned",
                                  ![r].response = IF fut[r] = "returned" THEN 200 ELSE 500]
    /\ UNCHANGED <<dvars, tvars, lvars, kvars, qvars, vvars, job, fut, work_queue>>

\* the servicer methods of TradingGrpcService that reach the vendor
GrpcMethods == {"SubmitOrder", "GetPositions"}

\* a servicer method runs on the thread the gRPC server gave the request and
\* calls self.trading_service.<method>(...) there: no job is handed to the
\* pool of get_executor and nothing bounds the call
GrpcCall(r, method) ==
    /\ handler[r].pc = "idle"
    /\ \A q \in Requests : q < r => handler[q].pc # "idle"
    /\ handler' = [handler EXCEPT ![r] = [IdleHandler EXCEPT !.pc = "direct",
                                                             !.route = method]]
    /\ UNCHANGED <<dvars, tvars, lvars, kvars, qvars, vvars, job, fut, work_queue>>

\* the service method returns or raises and the servicer answers with status
\* code 0, or 400 / 500 from its except clauses
GrpcReturn(r, outcome) ==
    /\ handler[r].pc = "direct"
    /\ handler' = [handler EXCEPT ![r].pc = "returned",
                                  ![r].response = IF outcome = "returned" THEN 0 ELSE 500]
    /\ UNCHANGED <<dvars, tvars, lvars, kvars, qvars, vvars, job, fut, work_queue>>

----------------------------------------------------------------------------
(* Authentication: get_api_key and verify_api_key *)

\* Optional[str]: None is the empty set, a string k is {k}
None == {}

Credentials == {None} \cup {{k} : k \in Keys}

NoAuth == [pc |-> "idle", credentials |-> None, api_key |-> None, result |-> ""]

\* HTTPBearer(auto_error=False) hands over the bearer token, or None when the
\* request has none; get_api_key returns credentials.credentials, or None
get_api_key(credentials) ==
    /\ auth.pc \in {"idle", "done"}
    /\ auth' = [NoAuth EXCEPT !.pc = "verify",
                              !.credentials = credentials,
                              !.api_key = IF credentials = None THEN None ELSE credentials]
    /\ UNCHANGED <<dvars, tvars, lvars, avars, qvars, vvars, api_keys>>

\* if not api_key: raise AuthenticationException
\* if api_keys and api_key not in api_keys: raise AuthenticationException
\* return api_key
verify_api_key ==
    /\ auth.pc = "verify"
    /\ auth' = [auth EXCEPT !.pc = "done",
                            !.result = IF auth.api_key = None THEN "missing"
                                       ELSE IF api_keys # {} /\ ~(auth.api_key \subseteq api_keys)
                                            THEN "invalid"
                                       ELSE "accepted"]
    /\ UNCHANGED <<dvars, tvars, lvars, avars, qvars, vvars, api_keys>>

----------------------------------------------------------------------------
(* SubscriptionManager: the fan-out of one quote subscription, and the     *)
(* quote WebSocket that consumes an attached stream                        *)

\* a put that never drops
quote_put_unbounded(q, tick) == Append(q, tick)

\* enqueue without blocking: when the queue is full the oldest tick is
\* removed and the new one inserted
quote_put(q, tick) ==
    IF Len(q) >= max_queue_size THEN Append(Tail(q), tick) ELSE Append(q, tick)

\* stream_quotes(subscription_id) begins: the stream is attached with an
\* empty queue and starts from the next tick
QuoteAttach(s) ==
    /\ s \notin quote_streams
    /\ \A u \in StreamIds : u < s => u \in quote_streams
    /\ quote_streams' = quote_streams \cup {s}
    /\ quote_queues' = [quote_queues EXCEPT ![s] = <<>>]
    /\ quote_unread' = [quote_unread EXCEPT ![s] = <<>>]
    /\ quote_read' = [quote_read EXCEPT ![s] = <<>>]
    /\ UNCHANGED <<dvars, tvars, lvars, avars, kvars, vvars, tick_count>>

\* the subscription's callback: the tick is enqueued for every attached stream
OnTick ==
    /\ tick_count < MaxTicks
    /\ tick_count' = tick_count + 1
    /\ quote_queues' = [s \in StreamIds |->
                           IF s \in quote_streams
                           THEN quote_put(quote_queues[s], tick_count')
                           ELSE quote_queues[s]]
    /\ quote_unread' = [s \in StreamIds |->
                           IF s \in quote_streams
                           THEN Append(quote_unread[s], tick_count')
                           ELSE quote_unread[s]]
    /\ UNCHANGED <<dvars, tvars, lvars, avars, kvars, vvars, quote_streams, quote_read>>

\* async for quote_data in stream_quotes(...): await websocket.send_json(...)
QuoteSend(s) ==
    /\ s \in quote_streams
    /\ quote_queues[s] # <<>>
    /\ quote_queues' = [quote_queues EXCEPT ![s] = Tail(@)]
    /\ quote_read' = [quote_read EXCEPT ![s] = Append(@, Head(quote_queues[s]))]
    /\ quote_unread' = [quote_unread EXCEPT ![s] =
                           SubSeq(@, Len(@) - Len(quote_queues[s]) + 2, Len(@))]
    /\ UNCHANGED <<dvars, tvars, lvars, avars, kvars, vvars, quote_streams, tick_count>>

----------------------------------------------------------------------------
(* Specifications *)

DInit ==
    /\ event_loop = "unset"
    /\ ws_queues = EmptyDict
    /\ global_queues = {}
    /\ callback_history = <<>>
    /\ queues = [s \in StreamIds |-> <<>>]
    /\ loop_ready = <<>>
    /\ vthread = [t \in VendorThreads |-> IdleThread]
    /\ dispatch_count = 0
    /\ stream = [s \in StreamIds |-> NoStream]
    /\ expect = [s \in StreamIds |-> {}]
    /\ got = [s \in StreamIds |-> {}]
    /\ delivered = [s \in StreamIds |-> <<>>]
    /\ dropped = [s \in StreamIds |-> {}]

TInit ==
    /\ xtquant_mode \in {"mock", "dev", "prod"}
    /\ allow_real_trading \in BOOLEAN
    /\ XTQUANT_AVAILABLE \in BOOLEAN
    /\ connected_accounts = EmptyDict
    /\ xt_traders = EmptyDict
    /\ orders = EmptyDict
    /\ order_counter = 1000
    /\ async_seq_counter = 0
    /\ seq_lock = NoWorker
    /\ worker = [w \in Workers |-> IdleWorker]
    /\ call_count = 0
    /\ now = 0
    /\ vendor_calls = {}
    /\ vendor_seq = 0
    /\ vendor_order_id = 0
    /\ pending_acks = <<>>
    /\ recent = <<>>
    /\ seq_returned = {}
    /\ seq_taken = <<>>
    /\ acked = {}

AInit ==
    /\ handler = [r \in Requests |-> IdleHandler]
    /\ job = [r \in Requests |-> "none"]
    /\ fut = [r \in Requests |-> "none"]
    /\ work_queue = <<>>

KInit ==
    /\ api_keys = {}
    /\ auth = NoAuth

QInit ==
    /\ quote_streams = {}
    /\ quote_queues = [s \in StreamIds |-> <<>>]
    /\ tick_count = 0
    /\ quote_unread = [s \in StreamIds |-> <<>>]
    /\ quote_read = [s \in StreamIds |-> <<>>]

VInit ==
    /\ started_traders = {}
    /\ callback_traders = {}

----------------------------------------------------------------------------
(* The subscriber lock: _dispatch_callback on the vendor threads; subscribe, *)
(* unsubscribe and stop on the event loop's thread                           *)

\* the event loop's thread is inside subscribe, unsubscribe or stop, waiting
\* for self._ws_lock: nothing else runs on the loop meanwhile
LoopThreadBusy ==
    \/ stop_pc = "lock"
    \/ \E s \in StreamIds : stream[s].pc \in {"subscribing", "unsubscribing"}

\* with self._ws_lock: (line 380), the vendor thread gets the lock
LockAcquire(t) ==
    /\ vthread[t].pc = "lock"
    /\ ws_lock = {}
    /\ ws_lock' = {t}
    /\ UNCHANGED <<dvars, tvars, avars, kvars, qvars, vvars, cvars, evars, rvars, zvars, stop_pc>>

_put_to_queue_blocks(q) == queue_full(queues[q])

\* _put_to_queue hands the coroutine to the loop with run_coroutine_threadsafe
\* and drops the future it gets: it waits neither for the coroutine nor for
\* room in the queue
_put_to_queue_waits(q) == FALSE

\* lines 381-388 and the release of the lock
DispatchHeld(t) ==
    /\ ws_lock = {t}
    /\ \A q \in AccountTargets(vthread[t].callback.account_id) \cup global_queues :
          ~_put_to_queue_waits(q)
    /\ dispatch_locked(t)
    /\ ws_lock' = {}
    /\ UNCHANGED <<avars, kvars, qvars, vvars, cvars, evars, rvars, zvars, stop_pc>>

\* stream_callbacks calls subscribe(account_id), which reaches its
\* `with self._ws_lock`
SubscribeEnter(s, account_id) ==
    /\ event_loop = "running"
    /\ ~LoopThreadBusy
    /\ NextStream(s)
    /\ stream' = [stream EXCEPT ![s].pc = "subscribing", ![s].account_id = account_id]
    /\ UNCHANGED <<event_loop, ws_queues, global_queues, callback_history, queues,
                   loop_ready, vthread, dispatch_count, expect, got,
                   delivered, dropped, tvars, xvars>>

\* subscribe's locked section
SubscribeLocked(s) ==
    /\ stream[s].pc = "subscribing"
    /\ ws_lock = {}
    /\ stream_subscribe(s, stream[s].account_id)

\* the consumer leaves stream_callbacks: finally: unsubscribe(queue, account_id)
UnsubscribeEnter(s) ==
    /\ event_loop = "running"
    /\ ~LoopThreadBusy
    /\ stream[s].pc = "subscribed"
    /\ stream' = [stream EXCEPT ![s].pc = "unsubscribing"]
    /\ UNCHANGED <<event_loop, ws_queues, global_queues, callback_history, queues,
                   loop_ready, vthread, dispatch_count, expect, got,
                   delivered, dropped, tvars, xvars>>

\* unsubscribe's locked section
UnsubscribeLocked(s) ==
    /\ stream[s].pc = "unsubscribing"
    /\ ws_lock = {}
    /\ ws_queues' = unsubscribe_ws(s, stream[s].account_id)
    /\ global_queues' = unsubscribe_global(s, stream[s].account_id)
    /\ stream' = [stream EXCEPT ![s].pc = "closed"]
    /\ UNCHANGED <<event_loop, callback_history, queues, loop_ready, vthread,
                   dispatch_count, expect, got, delivered, dropped, tvars, xvars>>

\* the lifespan calls trading_callback_manager.stop()
StopEnter ==
    /\ event_loop = "running"
    /\ ~LoopThreadBusy
    /\ stop_pc = "none"
    /\ stop_pc' = "lock"
    /\ UNCHANGED <<dvars, tvars, avars, kvars, qvars, vvars, cvars, evars, rvars, zvars, ws_lock>>

\* stop's locked section: both subscriber collections are cleared
StopLocked ==
    /\ stop_pc = "lock"
    /\ ws_lock = {}
    /\ ws_queues' = EmptyDict
    /\ global_queues' = {}
    /\ stop_pc' = "done"
    /\ UNCHANGED <<event_loop, callback_history, queues, loop_ready, vthread,
                   dispatch_count, stream, expect, got, delivered, dropped,
                   tvars, avars, kvars, qvars, vvars, cvars, evars, rvars, zvars, ws_lock>>

\* the loop runs a scheduled _async_put, or a consumer's queue.get() returns
LoopThreadRunOne == ~LoopThreadBusy /\ LoopRunOne

LoopThreadGet(s) == ~LoopThreadBusy /\ StreamGet(s)

----------------------------------------------------------------------------
(* The consumers of stream_callbacks and their clients *)

\* both consumers iterate stream_callbacks with `async for` and leave it with
\* `break`; the generator, suspended inside its try, is then finalized: the
\* loop it was iterated on is asked to run its aclose(), which runs the
\* `finally: self.unsubscribe(queue, account_id)`.  The WebSocket handler
\* iterates it on the server's loop.  StreamTradingCallbacks iterates it on a
\* loop of its own, run_until_complete(async_consumer()) and then
\* loop.close() with no shutdown_asyncgens(): that loop stops when
\* async_consumer returns, before the aclose() it was asked for has run.
aclose_runs(s) == s \notin rpc_streams

\* StreamTradingCallbacks starts its consumer thread, which subscribes
RpcStart(s, account_id) ==
    /\ event_loop = "running"
    /\ NextStream(s)
    /\ ws_queues' = subscribe_ws(s, account_id)
    /\ global_queues' = subscribe_global(s, account_id)
    /\ stream' = [stream EXCEPT ![s].pc = "subscribed", ![s].account_id = account_id]
    /\ rpc_streams' = rpc_streams \cup {s}
    /\ UNCHANGED <<event_loop, callback_history, queues, loop_ready, vthread,
                   dispatch_count, expect, got, delivered, dropped, tvars,
                   avars, kvars, qvars, vvars, lockvars, evars, rvars, zvars, client_gone, sync_queue, sent>>

\* the client of an open stream goes away
ClientDisconnect(s) ==
    /\ stream[s].pc = "subscribed"
    /\ s \notin client_gone
    /\ client_gone' = client_gone \cup {s}
    /\ UNCHANGED <<dvars, tvars, avars, kvars, qvars, vvars, lockvars, evars, rvars, zvars, rpc_streams, sync_queue, sent>>

\* the generator yields its next item, a queued callback or after 30 s a
\* heartbeat, and the consumer finds the client gone: send_json raises
\* (websocket.py lines 296-307), or stop_event is set because
\* context.is_active() turned false (trading_grpc_service.py lines 696,
\* 728, 840); it leaves the `async for`
ConsumerBreak(s) ==
    /\ event_loop = "running"
    /\ stream[s].pc = "subscribed"
    /\ s \in client_gone
    /\ queues' = [queues EXCEPT ![s] = IF @ = <<>> THEN @ ELSE Tail(@)]
    /\ stream' = [stream EXCEPT ![s].pc = "finalizing"]
    /\ UNCHANGED <<event_loop, ws_queues, global_queues, callback_history, loop_ready,
                   vthread, dispatch_count, expect, got, delivered, dropped,
                   tvars, xvars>>

\* the generator's aclose() runs: finally: self.unsubscribe(queue, account_id)
GeneratorClose(s) ==
    /\ event_loop = "running"
    /\ stream[s].pc = "finalizing"
    /\ aclose_runs(s)
    /\ ws_queues' = unsubscribe_ws(s, stream[s].account_id)
    /\ global_queues' = unsubscribe_global(s, stream[s].account_id)
    /\ stream' = [stream EXCEPT ![s].pc = "closed"]
    /\ UNCHANGED <<event_loop, callback_history, queues, loop_ready, vthread,
                   dispatch_count, expect, got, delivered, dropped, tvars, xvars>>

\* the item stream_callbacks yields on asyncio.TimeoutError (lines 433-438)
HeartbeatItem == TradingCallback(0, "heartbeat", NoAccount, NoSeq)

Heartbeats(s) == Cardinality({i \in DOMAIN delivered[s] : delivered[s][i] = HeartbeatItem})

\* wait_for(queue.get(), timeout=30.0) times out on the empty queue and the
\* generator yields a heartbeat to its consumer
Heartbeat(s) ==
    /\ event_loop = "running"
    /\ stream[s].pc = "subscribed"
    /\ queues[s] = <<>>
    /\ Heartbeats(s) < MaxHeartbeats
    /\ delivered' = [delivered EXCEPT ![s] = Append(@, HeartbeatItem)]
    /\ UNCHANGED <<event_loop, ws_queues, global_queues, callback_history, queues,
                   loop_ready, vthread, dispatch_count, stream, expect, got, dropped,
                   tvars, xvars>>

\* the WebSocket handler sends what the generator yields
WsGet(s) == s \notin rpc_streams /\ StreamGet(s)

WsHeartbeat(s) == s \notin rpc_streams /\ Heartbeat(s)

\* async_consumer, lines 698-707: sync_queue.put_nowait(callback_data); on
\* queue.Full, get_nowait() and put_nowait() again
bridge_put(content, data) ==
    LET first == put_nowait(content, data)
        removed == get_nowait(content)
        second == put_nowait(removed.content, data)
    IN IF ~first.raised THEN first.content
       ELSE IF removed.raised THEN content
       ELSE second.content

IsHeartbeat(item) == item = HeartbeatItem

\* the heartbeats an RPC stream has produced so far, sent or in the bridge
RpcHeartbeats(s) == Len(SelectSeq(delivered[s] \o sync_queue[s], IsHeartbeat))

\* the generator yields a queued callback to async_consumer, which puts it
\* on sync_queue
RpcConsume(s) ==
    /\ event_loop = "running"
    /\ s \in rpc_streams
    /\ stream[s].pc = "subscribed"
    /\ queues[s] # <<>>
    /\ sync_queue' = [sync_queue EXCEPT ![s] = bridge_put(@, Head(queues[s]))]
    /\ queues' = [queues EXCEPT ![s] = Tail(@)]
    /\ UNCHANGED <<event_loop, ws_queues, global_queues, callback_history, loop_ready,
                   vthread, dispatch_count, stream, expect, got, delivered, dropped,
                   tvars, avars, kvars, qvars, vvars, lockvars, evars, rvars, zvars,
                   rpc_streams, client_gone, sent>>

\* the generator's wait_for times out and it yields a heartbeat to
\* async_consumer, which puts it on sync_queue like any other item
RpcHeartbeatYield(s) ==
    /\ event_loop = "running"
    /\ s \in rpc_streams
    /\ stream[s].pc = "subscribed"
    /\ queues[s] = <<>>
    /\ RpcHeartbeats(s) < MaxHeartbeats
    /\ sync_queue' = [sync_queue EXCEPT ![s] = bridge_put(@, HeartbeatItem)]
    /\ UNCHANGED <<dvars, tvars, avars, kvars, qvars, vvars, lockvars, evars, rvars, zvars,
                   rpc_streams, client_gone, sent>>

\* StreamTradingCallbacks, lines 728-829: sync_queue.get(timeout=30.0)
\* returns an item and the message made of it is yielded to the client
RpcEmit(s) ==
    /\ s \in rpc_streams
    /\ sync_queue[s] # <<>>
    /\ delivered' = [delivered EXCEPT ![s] = Append(@, Head(sync_queue[s]))]
    /\ sync_queue' = [sync_queue EXCEPT ![s] = Tail(@)]
    /\ UNCHANGED <<event_loop, ws_queues, global_queues, callback_history, queues,
                   loop_ready, vthread, dispatch_count, stream, expect, got, dropped,
                   tvars, avars, kvars, qvars, vvars, lockvars, evars, rvars, zvars,
                   rpc_streams, client_gone, sent>>

\* lines 830-837: queue.Empty after 30 s, a heartbeat message is yielded
RpcIdle(s) ==
    /\ s \in rpc_streams
    /\ sync_queue[s] = <<>>
    /\ RpcHeartbeats(s) < MaxHeartbeats
    /\ delivered' = [delivered EXCEPT ![s] = Append(@, HeartbeatItem)]
    /\ UNCHANGED <<event_loop, ws_queues, global_queues, callback_history, queues,
                   loop_ready, vthread, dispatch_count, stream, expect, got, dropped,
                   tvars, xvars>>

----------------------------------------------------------------------------
(* websocket_trading_stream: the envelopes of one connection *)

Envelope(type, data) == [type |-> type, data |-> data]

ws_send_front(written, envelope) == <<envelope>> \o written

\* await websocket.send_json(envelope): written after what was written before
ws_send(written, envelope) == Append(written, envelope)

\* the callback envelopes written so far
CallbacksSent(s) == Len(SelectSeq(sent[s], LAMBDA e : e.type = "callback"))

\* lines 247-260: accept, then the "connected" envelope
WsConnected(s, account_id) ==
    /\ event_loop = "running"
    /\ NextStream(s)
    /\ stream' = [stream EXCEPT ![s].pc = "accepted", ![s].account_id = account_id]
    /\ sent' = [sent EXCEPT ![s] = ws_send(@, Envelope("connected", <<>>))]
    /\ UNCHANGED <<event_loop, ws_queues, global_queues, callback_history, queues,
                   loop_ready, vthread, dispatch_count, expect, got, delivered, dropped,
                   tvars, avars, kvars, qvars, vvars, lockvars, evars, rvars, zvars,
                   rpc_streams, client_gone, sync_queue>>

\* lines 262-269: get_recent_callbacks(account_id, limit=10) and, if there
\* are any, the "history" envelope
WsHistory(s) ==
    /\ stream[s].pc = "accepted"
    /\ LET recent_callbacks == get_recent_callbacks(stream[s].account_id, ReplayLimit)
       IN /\ stream' = [stream EXCEPT ![s].pc = "opened",
                                      ![s].history = recent_callbacks,
                                      ![s].snapshot = callback_history]
          /\ sent' = [sent EXCEPT ![s] =
                IF recent_callbacks # <<>>
                THEN ws_send(@, Envelope("history", recent_callbacks)) ELSE @]
    /\ UNCHANGED <<event_loop, ws_queues, global_queues, callback_history, queues,
                   loop_ready, vthread, dispatch_count, expect, got, delivered, dropped,
                   tvars, avars, kvars, qvars, vvars, lockvars, evars, rvars, zvars,
                   rpc_streams, client_gone, sync_queue>>

\* what a client may send: a ping, another JSON object, or text that
\* json.loads or message.get rejects
MessageKinds == {"ping", "other", "malformed"}

\* receive_messages: the try encloses the while loop, so an exception of
\* json.loads(data) or of message.get ends the loop (lines 272-290)
reader_returns(kind) == kind = "malformed"

\* receive_messages, lines 272-290, a task started at line 292: the client
\* sends a message; the reader, if it still runs, reads it and answers a
\* "ping" with a "pong" envelope
receive_messages(s, kind) ==
    /\ stream[s].pc \in {"opened", "subscribed"}
    /\ inbox' = [inbox EXCEPT ![s] = Append(@, kind)]
    /\ sent' = [sent EXCEPT ![s] =
          IF s \notin reader_ended /\ kind = "ping"
          THEN ws_send(@, Envelope("pong", <<>>)) ELSE @]
    /\ reader_ended' =
          IF s \notin reader_ended /\ reader_returns(kind)
          THEN reader_ended \cup {s} ELSE reader_ended
    /\ UNCHANGED <<dvars, tvars, avars, kvars, qvars, vvars, lockvars, evars, zvars,
                   rpc_streams, client_gone, sync_queue>>

\* a ping of the client and its pong
WsPong(s) ==
    /\ Len(SelectSeq(sent[s], LAMBDA e : e.type = "pong")) < MaxPings
    /\ receive_messages(s, "ping")

\* any message of the client
ClientMessage(s, kind) ==
    /\ Len(inbox[s]) < MaxMessages
    /\ receive_messages(s, kind)

\* line 296: the handler starts iterating stream_callbacks, which subscribes
WsSubscribe(s) ==
    /\ stream[s].pc = "opened"
    /\ stream_subscribe(s, stream[s].account_id)

\* the handler is back at the `async for`, its last send done, and the
\* generator yields the next queued callback
WsDequeue(s) ==
    /\ CallbacksSent(s) = Len(delivered[s])
    /\ StreamGet(s)

\* ... or, after 30 s with nothing queued, a heartbeat
WsYieldHeartbeat(s) ==
    /\ CallbacksSent(s) = Len(delivered[s])
    /\ Heartbeat(s)

\* lines 298-303: the yielded item goes out in a "callback" envelope
WsSend(s) ==
    /\ stream[s].pc = "subscribed"
    /\ CallbacksSent(s) < Len(delivered[s])
    /\ sent' = [sent EXCEPT ![s] =
          ws_send(@, Envelope("callback", delivered[s][Len(delivered[s])]))]
    /\ UNCHANGED <<dvars, tvars, avars, kvars, qvars, vvars, lockvars, evars, rvars, zvars,
                   rpc_streams, client_gone, sync_queue>>

\* a stream is opened while the server serves, before the lifespan's shutdown
StreamStartServing(s, account_id) == stop_pc = "none" /\ StreamStart(s, account_id)

\* ---- websocket_quote_stream: the opening of /ws/quote/{subscription_id} ----

SubscriptionIds == {"sub_1", "sub_2"}

\* create_subscription and delete_subscription of routers/data.py hand over to
\* the subscription manager, which keeps the table of identifiers
create_subscription(id) ==
    /\ id \notin subscriptions
    /\ subscriptions' = subscriptions \cup {id}
    /\ UNCHANGED <<dvars, tvars, avars, kvars, qvars, vvars, lockvars, cvars, evars, rvars, gvars,
                   quote_pc, quote_sub, quote_sent>>

delete_subscription(id) ==
    /\ id \in subscriptions
    /\ subscriptions' = subscriptions \ {id}
    /\ UNCHANGED <<dvars, tvars, avars, kvars, qvars, vvars, lockvars, cvars, evars, rvars, gvars,
                   quote_pc, quote_sub, quote_sent>>

\* subscription_manager.get_subscription_info(subscription_id): the record, or
\* nothing; a lookup that changes no state
get_subscription_info(id) == id \in subscriptions

quote_reject_connected(written) == ws_send(written, Envelope("connected", <<>>))

\* lines 43-49: the "error" envelope, then websocket.close(1008) and return
quote_reject(written) == ws_send(written, Envelope("error", <<>>))

\* websocket_quote_stream up to the stream loop (lines 34-57): accept, look
\* the subscription up, and either reject or send "connected"
QuoteConnect(s, id) ==
    /\ quote_pc[s] = "none"
    /\ \A u \in StreamIds : u < s => quote_pc[u] # "none"
    /\ quote_sub' = [quote_sub EXCEPT ![s] = id]
    /\ IF ~get_subscription_info(id)
       THEN /\ quote_sent' = [quote_sent EXCEPT ![s] = quote_reject(@)]
            /\ quote_pc' = [quote_pc EXCEPT ![s] = "rejected"]
       ELSE /\ quote_sent' = [quote_sent EXCEPT ![s] =
                                ws_send(@, Envelope("connected", <<>>))]
            /\ quote_pc' = [quote_pc EXCEPT ![s] = "connected"]
    /\ UNCHANGED <<dvars, tvars, avars, kvars, qvars, vvars, lockvars, cvars, evars, rvars, gvars,
                   subscriptions>>

\* line 84: a connected handler enters stream_quotes and is attached
QuoteStream(s) == quote_pc[s] = "connected" /\ QuoteAttach(s)

\* ---- the threads that touch a subscriber queue ----

\* the thread of the loop that main.py hands to the dispatcher
PrimaryThread == <<"primary", 0>>

\* run_async_consumer (trading_grpc_service.py lines 712-723): one thread per
\* RPC stream, with an event loop of its own
ConsumerThread(s) == <<"consumer", s>>

\* _put_to_queue schedules _async_put on self._loop with
\* run_coroutine_threadsafe: put_nowait and the eviction's get_nowait run on
\* the loop's thread
enqueue_thread(s) == PrimaryThread

\* `await asyncio.wait_for(queue.get(), timeout=30.0)` runs on the thread
\* that iterates stream_callbacks: the WebSocket handler's, or for an RPC
\* stream the one of run_until_complete(async_consumer())
dequeue_thread(s) == IF s \in rpc_streams THEN ConsumerThread(s) ELSE PrimaryThread

\* ---- TradingCallbackHandler.on_disconnected (lines 56-63) ----

\* the vendor loses the connection of a started trader and calls
\* on_disconnected on the handler registered on it: the handler logs and
\* dispatches a "disconnected" callback with account_id=""
on_disconnected(t, trader) ==
    /\ trader \in started_traders \cap callback_traders
    /\ trader \notin lost_traders
    /\ dispatch_count < MaxDispatch
    /\ on_callback(t, "disconnected", NoAccount, NoSeq, "lock")
    /\ callback_history' = history_update(callback_history, vthread'[t].callback)
    /\ lost_traders' = lost_traders \cup {trader}
    /\ UNCHANGED <<event_loop, ws_queues, global_queues, queues, loop_ready, stream,
                   expect, got, delivered, dropped, tvars,
                   avars, kvars, qvars, vvars, lockvars, cvars, evars, rvars, uvars>>

LInit ==
    /\ ws_lock = {}
    /\ stop_pc = "none"
    /\ rpc_streams = {}
    /\ client_gone = {}
    /\ sync_queue = [s \in StreamIds |-> <<>>]
    /\ sent = [s \in StreamIds |-> <<>>]
    /\ executor = "none"
    /\ executor_shut = FALSE
    /\ late_jobs = {}
    /\ inbox = [s \in StreamIds |-> <<>>]
    /\ reader_ended = {}
    /\ subscriptions = {}
    /\ quote_pc = [s \in StreamIds |-> "none"]
    /\ quote_sub = [s \in StreamIds |-> "none"]
    /\ quote_sent = [s \in StreamIds |-> <<>>]
    /\ lost_traders = {}

Init == DInit /\ TInit /\ AInit /\ KInit /\ QInit /\ VInit /\ LInit

\* the process started with the vendor attached and mutations permitted; the
\* dispatcher and the streams read none of the settings
LiveInit == Init /\ XTQUANT_AVAILABLE /\ xtquant_mode = "prod" /\ allow_real_trading

\* the dispatcher, called on several vendor threads, and its subscribers
DispatchNext ==
    \/ Startup
    \/ \E t \in VendorThreads : DispatchHistory(t)
    \/ \E t \in VendorThreads : DispatchLocked(t)
    \/ LoopRunOne
    \/ \E s \in StreamIds, a \in Accounts \cup {NoAccount} : StreamStart(s, a)
    \/ \E s \in StreamIds : StreamGet(s)
    \/ \E s \in StreamIds : StreamClose(s)

SpecDispatch == LiveInit /\ [][DispatchNext]_vars

\* the subscribers' queues: the callbacks of the vendor threads are put by
\* the loop into the queues of streams whose consumers read or do not
QueueNext ==
    \/ Startup
    \/ \E t \in VendorThreads : DispatchHistory(t)
    \/ \E t \in VendorThreads : DispatchLocked(t)
    \/ LoopRunOne
    \/ \E s \in StreamIds, a \in Accounts \cup {NoAccount} : StreamStart(s, a)
    \/ \E s \in StreamIds : StreamGet(s)

SpecQueue == LiveInit /\ [][QueueNext]_vars

\* the routing: sequences of subscribe, unsubscribe and dispatch, each of
\* which runs under _ws_lock, and the loop that puts into the queues
RouteNext ==
    \/ Startup
    \/ DispatchHistory(1)
    \/ DispatchLocked(1)
    \/ LoopRunOne
    \/ \E s \in StreamIds, a \in Accounts \cup {NoAccount} : StreamStart(s, a)
    \/ \E s \in StreamIds : StreamClose(s)

SpecRoute == LiveInit /\ [][RouteNext]_vars

\* the history list under concurrent vendor threads, and its replay; opening
\* a stream changes nothing of the manager, so one opening stream observes
\* what any number of them would
HistoryNext ==
    \/ Startup
    \/ \E t \in VendorThreads : DispatchEnter(t)
    \/ \E t \in VendorThreads : HistoryAppend(t)
    \/ \E t \in VendorThreads : HistoryCheck(t)
    \/ \E t \in VendorThreads : HistorySlice(t)
    \/ \E t \in VendorThreads : HistoryStore(t)
    \/ \E t \in VendorThreads : DispatchLocked(t)
    \/ \E a \in Accounts \cup {NoAccount} : StreamOpen(1, a)

SpecHistory == LiveInit /\ [][HistoryNext]_vars

\* the service's calls, on worker w
ServiceCall(w) ==
    \/ \E a \in ConnectAccounts : connect_account(w, a)
    \/ \E sid \in SessionArgs : disconnect_account(w, sid)
    \/ \E sid \in SessionArgs, c \in StockCodes : submit_order(w, sid, c)
    \/ \E sid \in SessionArgs, o \in OrderArgs : cancel_order(w, sid, o)
    \/ \E sid \in SessionArgs, c \in StockCodes : submit_order_async(w, sid, c)
    \/ \E sid \in SessionArgs, r \in CancelArgs : cancel_order_async(w, sid, r)

\* a worker's next step inside the method it runs
ServiceStep(w) ==
    \/ VendorConnect(w)
    \/ ConnectStoreAccount(w)
    \/ ConnectStoreTrader(w)
    \/ DisconnectStopTrader(w)
    \/ DisconnectCheckAccount(w)
    \/ DisconnectDelAccount(w)
    \/ Raise(w)
    \/ MockOrderIdRead(w)
    \/ MockCounterLoad(w)
    \/ MockCounterStore(w)
    \/ RealOrder(w)
    \/ MockCancel(w)
    \/ RealCancel(w)
    \/ AsyncRealCheck(w)
    \/ SeqAcquire(w)
    \/ SeqLoad(w)
    \/ SeqStore(w)
    \/ SeqReturn(w)
    \/ VendorAsync(w)

\* the service under concurrent requests
TradingNext ==
    \/ Tick
    \/ \E w \in Workers : ServiceCall(w)
    \/ \E w \in Workers : ServiceStep(w)

SpecTrading == Init /\ [][TradingNext]_vars

\* the service under one request at a time
SerialNext ==
    \/ Tick
    \/ ServiceCall(1)
    \/ ServiceStep(1)

SpecSerial == Init /\ [][SerialNext]_vars

\* the calls that take a seq, and connect, which registers their sessions
SeqNext ==
    \/ \E w \in Workers, a \in ConnectAccounts : connect_account(w, a)
    \/ \E w \in Workers : VendorConnect(w)
    \/ \E w \in Workers : ConnectStoreAccount(w)
    \/ \E w \in Workers : ConnectStoreTrader(w)
    \/ \E w \in Workers, sid \in SessionArgs, c \in StockCodes : submit_order_async(w, sid, c)
    \/ \E w \in Workers, sid \in SessionArgs, r \in CancelArgs : cancel_order_async(w, sid, r)
    \/ \E w \in Workers : Raise(w)
    \/ \E w \in Workers : AsyncRealCheck(w)
    \/ \E w \in Workers : SeqAcquire(w)
    \/ \E w \in Workers : SeqLoad(w)
    \/ \E w \in Workers : SeqStore(w)
    \/ \E w \in Workers : SeqReturn(w)
    \/ \E w \in Workers : VendorAsync(w)

SpecSeq == Init /\ [][SeqNext]_vars

\* a session's life under one request at a time: connect, the reads,
\* is_connected and disconnect
ReadsNext ==
    \/ Tick
    \/ \E a \in ConnectAccounts : connect_account(1, a)
    \/ VendorConnect(1)
    \/ ConnectStoreAccount(1)
    \/ ConnectStoreTrader(1)
    \/ \E sid \in SessionArgs : disconnect_account(1, sid)
    \/ DisconnectStopTrader(1)
    \/ DisconnectCheckAccount(1)
    \/ DisconnectDelAccount(1)
    \/ \E op \in ReadOps, sid \in SessionArgs : read_operation(1, op, sid)
    \/ \E sid \in SessionArgs : is_connected_call(1, sid)
    \/ Raise(1)
    \/ ReadAccountInfo(1)
    \/ ReadFixed(1)
    \/ RiskAsset(1)
    \/ VendorQuery(1)
    \/ VendorQueryReturn(1)
    \/ IsConnectedReturn(1)

SpecReads == Init /\ [][ReadsNext]_vars

\* the session identifiers a client can present that are not registered
UnregisteredArgs == SessionArgs \ DOMAIN connected_accounts

\* one request at a time: connect, disconnect, submit_order and
\* submit_order_async fill and empty the registry, the order table and the
\* seq counter; every other operation is called with identifiers that are not
\* registered
NotFoundNext ==
    \/ \E a \in ConnectAccounts : connect_account(1, a)
    \/ VendorConnect(1)
    \/ ConnectStoreAccount(1)
    \/ ConnectStoreTrader(1)
    \/ \E sid \in SessionArgs : disconnect_account(1, sid)
    \/ DisconnectStopTrader(1)
    \/ DisconnectCheckAccount(1)
    \/ DisconnectDelAccount(1)
    \/ \E sid \in SessionArgs : submit_order(1, sid, "000001.SZ")
    \/ MockOrderIdRead(1)
    \/ MockCounterLoad(1)
    \/ MockCounterStore(1)
    \/ RealOrder(1)
    \/ \E sid \in SessionArgs : submit_order_async(1, sid, "000001.SZ")
    \/ AsyncRealCheck(1)
    \/ SeqAcquire(1)
    \/ SeqLoad(1)
    \/ SeqStore(1)
    \/ SeqReturn(1)
    \/ VendorAsync(1)
    \/ \E sid \in UnregisteredArgs, o \in OrderArgs : cancel_order(1, sid, o)
    \/ \E sid \in UnregisteredArgs, r \in CancelArgs : cancel_order_async(1, sid, r)
    \/ \E op \in ReadOps, sid \in UnregisteredArgs : read_operation(1, op, sid)
    \/ Raise(1)

SpecNotFound == Init /\ [][NotFoundNext]_vars

\* async requests in LIVE_RW, their acknowledgements and the streams
AsyncNext ==
    \/ Startup
    \/ \E s \in StreamIds, a \in ConnectAccounts \cup {NoAccount} : StreamStart(s, a)
    \/ \E s \in StreamIds : StreamGet(s)
    \/ \E w \in Workers, a \in ConnectAccounts : connect_account(w, a)
    \/ \E w \in Workers : VendorConnect(w)
    \/ \E w \in Workers : ConnectStoreAccount(w)
    \/ \E w \in Workers : ConnectStoreTrader(w)
    \/ \E w \in Workers, sid \in SessionArgs, c \in StockCodes : submit_order_async(w, sid, c)
    \/ \E w \in Workers, sid \in SessionArgs, r \in CancelArgs : cancel_order_async(w, sid, r)
    \/ \E w \in Workers : Raise(w)
    \/ \E w \in Workers : AsyncRealCheck(w)
    \/ \E w \in Workers : SeqAcquire(w)
    \/ \E w \in Workers : SeqLoad(w)
    \/ \E w \in Workers : SeqStore(w)
    \/ \E w \in Workers : SeqReturn(w)
    \/ \E w \in Workers : VendorAsync(w)
    \/ \E t \in VendorThreads : VendorAck(t)
    \/ \E t \in VendorThreads : DispatchLocked(t)
    \/ LoopRunOne

SpecAsync == LiveInit /\ [][AsyncNext]_vars

\* HTTP requests through run_sync and run_sync_no_timeout, the pool and the loop
RunSyncNext ==
    \/ \E r \in Requests, route \in Routes : run_sync(r, route)
    \/ \E r \in Requests, route \in Routes : run_sync_no_timeout(r, route)
    \/ \E r \in Requests : ExecutorRun(r)
    \/ \E r \in Requests, outcome \in {"returned", "raised"} : FuncReturns(r, outcome)
    \/ \E r \in Requests : SetState(r)
    \/ \E r \in Requests : Deadline(r)
    \/ \E r \in Requests : Resume(r)

SpecRunSync == LiveInit /\ [][RunSyncNext]_vars

\* the loop, the pool and the timers keep running; nothing makes the vendor
\* function return
SpecRunSyncFair ==
    /\ SpecRunSync
    /\ \A r \in Requests : WF_vars(ExecutorRun(r))
    /\ \A r \in Requests : WF_vars(SetState(r))
    /\ \A r \in Requests : WF_vars(Deadline(r))
    /\ \A r \in Requests : WF_vars(Resume(r))

\* callbacks dispatched before the loop is set, while it runs and after it
\* was closed
LoopDownNext ==
    \/ Startup
    \/ LoopClose
    \/ \E t \in VendorThreads : Dispatch(t)
    \/ \E t \in VendorThreads : DispatchLocked(t)
    \/ LoopRunOne
    \/ \E s \in StreamIds : StreamStart(s, NoAccount)
    \/ \E s \in StreamIds : StreamGet(s)

SpecLoopDown == LiveInit /\ [][LoopDownNext]_vars

\* dispatch, subscribe, unsubscribe and stop contending for the lock
LocksNext ==
    \/ Startup
    \/ \E t \in VendorThreads : DispatchOf(t, CHOOSE in \in CallbackInputs : TRUE)
    \/ \E t \in VendorThreads : LockAcquire(t)
    \/ \E t \in VendorThreads : DispatchHeld(t)
    \/ \E s \in 1..MaxLockStreams : SubscribeEnter(s, NoAccount)
    \/ \E s \in StreamIds : SubscribeLocked(s)
    \/ \E s \in StreamIds : UnsubscribeEnter(s)
    \/ \E s \in StreamIds : UnsubscribeLocked(s)
    \/ StopEnter
    \/ StopLocked
    \/ LoopThreadRunOne
    \/ \E s \in StreamIds : LoopThreadGet(s)

SpecLocks == LiveInit /\ [][LocksNext]_vars

\* every thread that can run does run; a client may stop reading for ever, so
\* a consumer's get and the start and end of a stream are not forced
SpecLocksFair ==
    /\ SpecLocks
    /\ \A t \in VendorThreads : WF_vars(LockAcquire(t)) /\ WF_vars(DispatchHeld(t))
    /\ \A s \in StreamIds : WF_vars(SubscribeLocked(s)) /\ WF_vars(UnsubscribeLocked(s))
    /\ WF_vars(StopLocked)

\* trading-event streams on both surfaces and their clients going away
DisconnectNext ==
    \/ Startup
    \/ \E t \in VendorThreads : DispatchOf(t, CHOOSE in \in CallbackInputs : TRUE)
    \/ \E t \in VendorThreads : DispatchLocked(t)
    \/ LoopRunOne
    \/ \E s \in StreamIds : StreamStart(s, NoAccount)
    \/ \E s \in StreamIds : RpcStart(s, NoAccount)
    \/ \E s \in StreamIds : StreamGet(s)
    \/ \E s \in StreamIds : ClientDisconnect(s)
    \/ \E s \in StreamIds : ConsumerBreak(s)
    \/ \E s \in StreamIds : GeneratorClose(s)

SpecDisconnect == LiveInit /\ [][DisconnectNext]_vars

\* the loop runs what is scheduled on it, and a waiting generator yields a
\* heartbeat after 30 s at the latest
SpecDisconnectFair ==
    /\ SpecDisconnect
    /\ WF_vars(LoopRunOne)
    /\ \A t \in VendorThreads : WF_vars(DispatchLocked(t))
    /\ \A s \in StreamIds : WF_vars(ConsumerBreak(s)) /\ WF_vars(GeneratorClose(s))

\* open streams and the lifespan's shutdown
ShutdownNext ==
    \/ Startup
    \/ \E t \in VendorThreads : DispatchOf(t, CHOOSE in \in CallbackInputs : TRUE)
    \/ \E t \in VendorThreads : DispatchLocked(t)
    \/ LoopRunOne
    \/ \E s \in StreamIds : StreamStartServing(s, NoAccount)
    \/ \E s \in StreamIds : StreamGet(s)
    \/ \E s \in StreamIds : Heartbeat(s)
    \/ StopEnter
    \/ StopLocked

SpecShutdown == LiveInit /\ [][ShutdownNext]_vars

\* the loop runs what is scheduled on it and stop() gets the lock
SpecShutdownFair ==
    /\ SpecShutdown
    /\ WF_vars(LoopRunOne)
    /\ WF_vars(StopLocked)
    /\ \A t \in VendorThreads : WF_vars(DispatchLocked(t))
    /\ \A s \in StreamIds : WF_vars(StreamGet(s)) /\ WF_vars(Heartbeat(s))

\* requests and the lifespan's shutdown of the pool
ExecShutdownNext ==
    \/ \E r \in Requests, route \in Routes : run_sync(r, route)
    \/ \E r \in Requests : ExecutorRun(r)
    \/ \E r \in Requests, outcome \in {"returned", "raised"} : FuncReturns(r, outcome)
    \/ \E r \in Requests : SetState(r)
    \/ \E r \in Requests : Deadline(r)
    \/ \E r \in Requests : Resume(r)
    \/ shutdown_executor

SpecExecShutdown == LiveInit /\ [][ExecShutdownNext]_vars

\* idle and busy streams on both surfaces
HeartbeatNext ==
    \/ Startup
    \/ \E t \in VendorThreads : DispatchOf(t, CHOOSE in \in CallbackInputs : TRUE)
    \/ \E t \in VendorThreads : DispatchLocked(t)
    \/ LoopRunOne
    \/ \E s \in 1..MaxLockStreams : StreamStart(s, NoAccount)
    \/ \E s \in 1..MaxLockStreams : RpcStart(s, NoAccount)
    \/ \E s \in StreamIds : WsGet(s)
    \/ \E s \in StreamIds : WsHeartbeat(s)
    \/ \E s \in StreamIds : RpcConsume(s)
    \/ \E s \in StreamIds : RpcHeartbeatYield(s)
    \/ \E s \in StreamIds : RpcEmit(s)
    \/ \E s \in StreamIds : RpcIdle(s)

SpecHeartbeat == LiveInit /\ [][HeartbeatNext]_vars

\* one trading WebSocket connection
WsEnvelopeNext ==
    \/ Startup
    \/ \E t \in VendorThreads : DispatchOf(t, CHOOSE in \in CallbackInputs : TRUE)
    \/ \E t \in VendorThreads : DispatchLocked(t)
    \/ LoopRunOne
    \/ \E a \in Accounts \cup {NoAccount} : WsConnected(1, a)
    \/ \E s \in StreamIds : WsHistory(s)
    \/ \E s \in StreamIds : WsPong(s)
    \/ \E s \in StreamIds : WsSubscribe(s)
    \/ \E s \in StreamIds : WsDequeue(s)
    \/ \E s \in StreamIds : WsYieldHeartbeat(s)
    \/ \E s \in StreamIds : WsSend(s)

SpecWsEnvelope == LiveInit /\ [][WsEnvelopeNext]_vars

\* the process started in a mode that simulates orders and data
SimInit == Init /\ ~_should_use_real_trading /\ ~_should_use_real_data

\* streams that subscribe and unsubscribe while a vendor thread dispatches
SubscribersNext ==
    \/ Startup
    \/ DispatchOf(1, CHOOSE in \in CallbackInputs : TRUE)
    \/ DispatchLocked(1)
    \/ \E s \in StreamIds, a \in Accounts \cup {NoAccount} : StreamStart(s, a)
    \/ \E s \in StreamIds : StreamClose(s)

SpecSubscribers == LiveInit /\ [][SubscribersNext]_vars

\* vendor threads that dispatch at the same time, the history step by step
HistoryRaceNext ==
    \/ Startup
    \/ \E t \in VendorThreads : DispatchAppend(t)
    \/ \E t \in VendorThreads : HistoryCheck(t)
    \/ \E t \in VendorThreads : HistorySlice(t)
    \/ \E t \in VendorThreads : HistoryStore(t)
    \/ \E t \in VendorThreads : DispatchLocked(t)

SpecHistoryRace == LiveInit /\ [][HistoryRaceNext]_vars

\* the state two simulated connect_account calls, one clock tick apart, leave
SessionsInit ==
    /\ DInit /\ AInit /\ KInit /\ QInit /\ VInit /\ LInit
    /\ xtquant_mode \in {"mock", "dev", "prod"}
    /\ allow_real_trading \in BOOLEAN
    /\ XTQUANT_AVAILABLE \in BOOLEAN
    /\ ~_should_use_real_trading /\ ~_should_use_real_data
    /\ connected_accounts =
          DictSet(DictSet(EmptyDict, SessionId("A", 0), [account_id |-> "A", account |-> FALSE]),
                  SessionId("A", 1), [account_id |-> "A", account |-> FALSE])
    /\ now = 1
    /\ xt_traders = EmptyDict
    /\ orders = EmptyDict
    /\ order_counter = 1000
    /\ async_seq_counter = 0
    /\ seq_lock = NoWorker
    /\ worker = [w \in Workers |-> IdleWorker]
    /\ call_count = 0
    /\ vendor_calls = {}
    /\ vendor_seq = 0
    /\ vendor_order_id = 0
    /\ pending_acks = <<>>
    /\ recent = <<>>
    /\ seq_returned = {}
    /\ seq_taken = <<>>
    /\ acked = {}

\* simulated orders of two sessions, one request at a time
SimSessionsNext ==
    \/ \E sid \in DOMAIN connected_accounts : submit_order(1, sid, "000001.SZ")
    \/ MockOrderIdRead(1)
    \/ MockCounterLoad(1)
    \/ MockCounterStore(1)
    \/ \E sid \in DOMAIN connected_accounts, o \in DOMAIN orders : cancel_order(1, sid, o)
    \/ MockCancel(1)
    \/ \E sid \in DOMAIN connected_accounts : read_operation(1, "get_orders", sid)
    \/ ReadFixed(1)

SpecSimSessions == SessionsInit /\ [][SimSessionsNext]_vars

\* simulated orders submitted by requests that run on two executor workers
SimOrdersNext ==
    \E w \in Workers :
        \/ connect_account(w, "A")
        \/ ConnectStoreAccount(w)
        \/ \E sid \in DOMAIN connected_accounts : submit_order(w, sid, "000001.SZ")
        \/ MockOrderIdRead(w)
        \/ MockCounterLoad(w)
        \/ MockCounterStore(w)

SpecSimOrders == SimInit /\ [][SimOrdersNext]_vars

\* sessions of the vendor and the vendor's disconnected callback
VendorLostNext ==
    \/ \E a \in ConnectAccounts : connect_account(1, a)
    \/ VendorConnect(1)
    \/ ConnectStoreAccount(1)
    \/ ConnectStoreTrader(1)
    \/ \E t \in VendorThreads, trader \in 1..MaxCalls : on_disconnected(t, trader)
    \/ \E t \in VendorThreads : DispatchLocked(t)
    \/ \E sid \in SessionArgs : is_connected_call(1, sid)
    \/ IsConnectedReturn(1)
    \/ \E op \in ReadOps, sid \in SessionArgs : read_operation(1, op, sid)
    \/ Raise(1)
    \/ ReadAccountInfo(1)
    \/ ReadFixed(1)
    \/ RiskAsset(1)
    \/ VendorQuery(1)
    \/ VendorQueryReturn(1)

SpecVendorLost == LiveInit /\ [][VendorLostNext]_vars

\* quote WebSockets opened for existing and for unknown subscriptions
QuoteOpenNext ==
    \/ \E id \in SubscriptionIds : create_subscription(id)
    \/ \E id \in SubscriptionIds : delete_subscription(id)
    \/ \E s \in StreamIds, id \in SubscriptionIds : QuoteConnect(s, id)
    \/ \E s \in StreamIds : QuoteStream(s)
    \/ OnTick
    \/ \E s \in StreamIds : QuoteSend(s)

SpecQuoteOpen == LiveInit /\ [][QuoteOpenNext]_vars

\* one trading WebSocket connection and what its client sends
WsReaderNext ==
    \/ Startup
    \/ \E t \in VendorThreads : DispatchOf(t, CHOOSE in \in CallbackInputs : TRUE)
    \/ \E t \in VendorThreads : DispatchLocked(t)
    \/ LoopRunOne
    \/ WsConnected(1, NoAccount)
    \/ \E s \in StreamIds : WsHistory(s)
    \/ \E s \in StreamIds, kind \in MessageKinds : ClientMessage(s, kind)
    \/ \E s \in StreamIds : WsSubscribe(s)
    \/ \E s \in StreamIds : WsDequeue(s)
    \/ \E s \in StreamIds : WsSend(s)

SpecWsReader == LiveInit /\ [][WsReaderNext]_vars

\* requests on the HTTP surface and on the RPC surface
SurfacesNext ==
    \/ \E r \in Requests, route \in Routes : run_sync(r, route)
    \/ \E r \in Requests, route \in Routes : run_sync_no_timeout(r, route)
    \/ \E r \in Requests, method \in GrpcMethods : GrpcCall(r, method)
    \/ \E r \in Requests : ExecutorRun(r)
    \/ \E r \in Requests, outcome \in {"returned", "raised"} : FuncReturns(r, outcome)
    \/ \E r \in Requests, outcome \in {"returned", "raised"} : GrpcReturn(r, outcome)
    \/ \E r \in Requests : SetState(r)
    \/ \E r \in Requests : Deadline(r)
    \/ \E r \in Requests : Resume(r)

SpecSurfaces == LiveInit /\ [][SurfacesNext]_vars

\* the process started with any allow-list; requests are authenticated one
\* after the other
AuthInit ==
    /\ DInit /\ TInit /\ AInit /\ QInit /\ VInit /\ LInit
    /\ XTQUANT_AVAILABLE /\ xtquant_mode = "prod" /\ allow_real_trading
    /\ api_keys \in SUBSET Keys
    /\ auth = NoAuth

AuthNext ==
    \/ \E credentials \in Credentials : get_api_key(credentials)
    \/ verify_api_key

SpecAuth == AuthInit /\ [][AuthNext]_vars

\* one quote subscription: streams attach, the vendor pushes ticks, each
\* stream's WebSocket sends at its own pace
QuoteNext ==
    \/ \E s \in StreamIds : QuoteAttach(s)
    \/ OnTick
    \/ \E s \in StreamIds : QuoteSend(s)

SpecQuote == LiveInit /\ [][QuoteNext]_vars

\* a live process: connects, disconnects and position queries of concurrent
\* requests, each on its own worker of the pool
OverlapNext ==
    \E w \in Workers :
        \/ connect_account(w, "A")
        \/ VendorConnect(w)
        \/ ConnectStoreAccount(w)
        \/ ConnectStoreTrader(w)
        \/ \E sid \in SessionArgs : disconnect_account(w, sid)
        \/ DisconnectStopTrader(w)
        \/ DisconnectCheckAccount(w)
        \/ DisconnectDelAccount(w)
        \/ \E sid \in SessionArgs : read_operation(w, "get_positions", sid)
        \/ Raise(w)
        \/ VendorQuery(w)
        \/ VendorQueryReturn(w)

SpecOverlap == LiveInit /\ [][OverlapNext]_vars

----------------------------------------------------------------------------
(* Properties of the dispatcher *)

\* what a stream's consumer has dequeued followed by what it will dequeue next
StreamOrder(s) == delivered[s] \o queues[s]

\* the coroutines handed to the loop that will still put into the stream's queue
PendingIds(s) == {loop_ready[i].data.id : i \in {j \in DOMAIN loop_ready : loop_ready[j].queue = s}}

\* C3: for every account and every subscriber, the callbacks of that account
\* leave the subscriber's queue in the order in which _dispatch_callback was
\* invoked for them (ids number the invocations); evictions only remove records.
C3_DeliveryInReceiveOrder ==
    \A s \in StreamIds : \A p, q \in DOMAIN StreamOrder(s) :
        (p < q /\ StreamOrder(s)[p].account_id = StreamOrder(s)[q].account_id)
            => StreamOrder(s)[p].id < StreamOrder(s)[q].id

\* C4: every subscriber queue holds at most the queue's maxsize entries in
\* every reachable state, whether or not its consumer ever reads.
C4_QueueBounded == \A s \in StreamIds : Len(queues[s]) <= QueueMaxSize

\* C4 witness: a consumer that never read has a full queue that already evicted
C4_SlowConsumerDrops ==
    \E s \in StreamIds :
        /\ stream[s].pc = "subscribed"
        /\ delivered[s] = <<>>
        /\ dropped[s] # {}
        /\ Len(queues[s]) = QueueMaxSize

\* C5: a subscriber with account filter A is only ever enqueued callbacks whose
\* account_id is A, and a global subscriber is enqueued (or has been scheduled
\* on the loop to be enqueued) every callback dispatched while it was subscribed.
C5_Routing ==
    \A s \in StreamIds :
        /\ stream[s].account_id # NoAccount =>
              \A c \in got[s] : c.account_id = stream[s].account_id
        /\ stream[s].account_id = NoAccount =>
              expect[s] \subseteq {c.id : c \in got[s]} \cup PendingIds(s)

\* C5 witness: an account subscriber and a global subscriber were both enqueued,
\* the global one also a callback of another account that the first never got
C5_BothKindsEnqueued ==
    \E s, g \in StreamIds :
        /\ stream[s].account_id = "A" /\ got[s] # {}
        /\ stream[g].account_id = NoAccount /\ stream[g].pc # "none"
        /\ \E c, d \in got[g] : c.account_id = "A" /\ d.account_id = "B"
        /\ \E d \in got[g] : d \notin got[s]

\* C6: the history holds at most _max_history records at every observation
\* point, a read from another thread in the middle of a dispatch included.
C6_HistoryBounded ==
    /\ Len(callback_history) <= MaxHistory
    /\ \A s \in StreamIds : Len(stream[s].snapshot) <= MaxHistory

\* the positions of the records of a history that match an account filter
Matching(history, account_id) ==
    {i \in DOMAIN history : account_id = NoAccount \/ history[i].account_id = account_id}

\* the position matching the filter that has exactly n matching positions after it
NthFromEnd(history, account_id, n) ==
    CHOOSE i \in Matching(history, account_id) :
        Cardinality({j \in Matching(history, account_id) : j > i}) = n

Min(a, b) == IF a <= b THEN a ELSE b

----------------------------------------------------------------------------
(* Properties of the trading service *)

\* the operational modes, from the settings
LIVE_RW == xtquant_mode = "prod" /\ allow_real_trading

LIVE_RO == XTQUANT_AVAILABLE /\ xtquant_mode \in {"dev", "prod"} /\ ~LIVE_RW

MutatingOps == {"submit_order", "cancel_order", "submit_order_async", "cancel_order_async"}

\* the vendor primitives that place or cancel an order
MutationPrimitives == {"order_stock", "cancel_order_stock", "order_stock_async",
                       "cancel_order_stock_async", "cancel_order_stock_sysid_async"}

\* C1: under every interleaving of submit_order_async and cancel_order_async
\* calls, simulated or real, the values the lock-guarded counter hands out are
\* strictly increasing in the order they are taken, and no two calls return the
\* same seq.
C1_SeqDistinctIncreasing ==
    /\ \A i, j \in DOMAIN seq_taken : i < j => seq_taken[i] < seq_taken[j]
    /\ \A a, b \in seq_returned : a.call # b.call => a.seq # b.seq

\* C1 witness: an async cancel and an async submit contend for the counter, one
\* waiting for the lock while the other has incremented it
C1_ContendedCounter ==
    \E w, v \in Workers :
        /\ worker[w].pc = "seq_acquire"
        /\ worker[v].pc = "seq_return"
        /\ seq_lock = v
        /\ worker[w].op # worker[v].op

\* C8: outside LIVE_RW no vendor mutation primitive is ever invoked, and
\* submit_order on a registered session with a valid symbol returns a
\* fabricated order whose status is SUBMITTED.
C8_NoVendorMutationOutsideLiveRW ==
    ~LIVE_RW =>
        /\ {c \in vendor_calls : c.primitive \in MutationPrimitives} = {}
        /\ \A i \in DOMAIN recent :
              (/\ recent[i].op = "submit_order"
               /\ recent[i].registered
               /\ validate_stock_code(recent[i].stock_code))
              => /\ recent[i].ok
                 /\ recent[i].value.status = "SUBMITTED"
                 /\ recent[i].value.order_id = MockOrderId(recent[i].value.order_id[2])

\* C8 witness: with the vendor attached but mutations not permitted, a
\* submit_order on a session that has a vendor handle returned, and so did
\* another mutating call
C8_SimulatedWithVendorAttached ==
    /\ ~LIVE_RW
    /\ \E i, j \in DOMAIN recent :
          /\ recent[i].op = "submit_order" /\ recent[i].ok
          /\ recent[i].session_id \in DOMAIN xt_traders
          /\ recent[j].op \in MutatingOps \ {"submit_order"} /\ recent[j].ok

\* a response that says of itself that it was simulated
HasSimulationFlag(value) == "simulation" \in DOMAIN value /\ value.simulation = TRUE

\* C9: every mutating operation executed in LIVE_RO returns a response that
\* carries a truthy simulation flag.
C9_SimulationFlagTruthy ==
    LIVE_RO =>
        \A i \in DOMAIN recent :
            (recent[i].op \in MutatingOps /\ recent[i].ok) => HasSimulationFlag(recent[i].value)

\* a successful connect directly followed by the disconnect of its session
RoundTrip(i) ==
    /\ i + 1 \in DOMAIN recent
    /\ recent[i].op = "connect_account" /\ recent[i].ok /\ recent[i].value.success
    /\ recent[i + 1].op = "disconnect_account"
    /\ recent[i + 1].call = recent[i].call + 1
    /\ recent[i + 1].session_id = recent[i].value.session_id

\* C10: a connect followed by the disconnect of the session it returned leaves
\* the session registry and the vendor-handle map at their pre-connect sizes,
\* and a second disconnect of the same identifier returns false, raises
\* nothing and changes no state.
C10_ConnectDisconnectRoundTrip ==
    \A i \in DOMAIN recent :
        RoundTrip(i) =>
            /\ recent[i + 1].ok
            /\ recent[i + 1].post = recent[i].pre
            /\ (/\ i + 2 \in DOMAIN recent
                /\ recent[i + 2].op = "disconnect_account"
                /\ recent[i + 2].call = recent[i].call + 2
                /\ recent[i + 2].session_id = recent[i].value.session_id)
               => /\ recent[i + 2].ok
                  /\ recent[i + 2].value.success = FALSE
                  /\ recent[i + 2].unchanged

\* a connect that returned success
ConnectOk(i) ==
    recent[i].op = "connect_account" /\ recent[i].ok /\ recent[i].value.success

\* C11: every successful connect returns an identifier different from every
\* identifier a connect returned earlier, two connects of one account within
\* the same clock second included, so that a successful connect adds one entry
\* to the session registry and, on the real path, one to the vendor-handle map.
C11_SessionIdsUnique ==
    \A i, j \in DOMAIN recent :
        (i < j /\ ConnectOk(i) /\ ConnectOk(j)) =>
            /\ recent[i].value.session_id # recent[j].value.session_id
            /\ recent[j].post.accounts = recent[j].pre.accounts + 1
            /\ recent[j].real => recent[j].post.traders = recent[j].pre.traders + 1

\* a read, or is_connected, called with the session identifier sid
ReadOf(j, sid) ==
    /\ recent[j].op \in ReadOps \cup {"is_connected"}
    /\ recent[j].session_id = sid

\* the call found the session: is_connected answered true, a read returned
\* (or failed in the vendor's own query, which no session state decides)
Served(j) ==
    IF recent[j].op = "is_connected" THEN recent[j].value.connected
    ELSE recent[j].ok \/ recent[j].value.error = "vendor"

\* the call did not find the session
SessionNotFound(j) ==
    IF recent[j].op = "is_connected" THEN ~recent[j].value.connected
    ELSE ~recent[j].ok /\ recent[j].value.error = "not connected"

\* C12: between the return of a successful connect of session s and the call
\* of disconnect(s), is_connected(s) answers true and every read on s is
\* served; once disconnect(s) has been called, is_connected(s) is false in
\* every later state and every later read on s fails with session-not-found.
C12_ReadsFollowSessionLife ==
    /\ \A i, j \in DOMAIN recent :
          (/\ i < j
           /\ ConnectOk(i)
           /\ ReadOf(j, recent[i].value.session_id)
           /\ \A k \in DOMAIN recent :
                 (i < k /\ k < j) =>
                     ~(/\ recent[k].op = "disconnect_account"
                       /\ recent[k].session_id = recent[i].value.session_id))
          => Served(j)
    /\ \A i \in DOMAIN recent :
          (recent[i].op = "disconnect_account" /\ recent[i].ok) =>
              /\ ~is_connected(recent[i].session_id)
              /\ \A j \in DOMAIN recent :
                    (i < j /\ ReadOf(j, recent[i].session_id)) => SessionNotFound(j)

\* C13: a read or a mutating operation called with a session identifier that
\* is not registered fails with session-not-found, has made no vendor call,
\* and leaves the session registry, the order table and the async sequence
\* counter as they were.
C13_UnregisteredSessionRejected ==
    \A i \in DOMAIN recent :
        (recent[i].op \in ReadOps \cup MutatingOps /\ ~recent[i].registered) =>
            /\ ~recent[i].ok
            /\ recent[i].value.error = "not connected"
            /\ recent[i].unchanged
            /\ \A c \in vendor_calls : c.call # recent[i].call

\* C13 witness: with a session registered, a read and a mutating operation
\* were called with other identifiers and rejected
C13_RejectedWhileOthersRegistered ==
    /\ connected_accounts # EmptyDict
    /\ \E i, j \in DOMAIN recent :
          /\ recent[i].op \in ReadOps /\ ~recent[i].registered /\ ~recent[i].ok
          /\ recent[j].op \in MutatingOps /\ ~recent[j].registered /\ ~recent[j].ok

\* nothing is in progress: every call has returned, every accepted request has
\* been acknowledged and every acknowledgement has reached its consumers
Quiescent ==
    /\ \A w \in Workers : worker[w].pc = "idle"
    /\ \A t \in VendorThreads : vthread[t].pc = "idle"
    /\ pending_acks = <<>>
    /\ loop_ready = <<>>
    /\ \A s \in StreamIds : queues[s] = <<>>

\* the async acknowledgements a stream's consumer has received with a given seq
AcksReceived(s, seq) ==
    {i \in DOMAIN delivered[s] :
        /\ delivered[s][i].callback_type \in {"async_order", "async_cancel"}
        /\ delivered[s][i].seq = seq}

\* C2: for every seq S that a successful submit_order_async or
\* cancel_order_async returned, exactly one async acknowledgement carrying S is
\* dispatched, it is the acknowledgement of that request, and every stream
\* subscribed before the call whose filter matches has received exactly that
\* one callback with seq S once nothing is in progress any more.
C2_AckCarriesReturnedSeq ==
    Quiescent =>
        \A r \in seq_returned :
            /\ Cardinality({a \in acked : a.seq = r.seq}) = 1
            /\ \A a \in acked : a.seq = r.seq => a.call = r.call
            /\ \A s \in r.streams :
                  stream[s].account_id \in {NoAccount, r.account_id} =>
                      /\ Cardinality(AcksReceived(s, r.seq)) = 1
                      /\ \A i \in AcksReceived(s, r.seq) :
                            \E a \in acked : a.call = r.call /\ a.id = delivered[s][i].id

----------------------------------------------------------------------------
(* Properties of run_sync *)

\* the deadline of request r elapsed while the awaited future was pending
TimedOut(r) == handler[r].job_at_deadline # "none"

\* C14: when the deadline of a run_sync call elapses before the submitted
\* function is done, the caller gets HTTP 504; a function that a pool thread
\* was running is left running and can still return or raise, and its outcome
\* is discarded: the awaited future stays cancelled and the response stays 504.
C14_TimeoutDiscardsLateResult ==
    \A r \in Requests :
        TimedOut(r) =>
            /\ handler[r].pc = "returned"
            /\ handler[r].response = 504
            /\ fut[r] = "cancelled"
            /\ handler[r].job_at_deadline = "running" =>
                   job[r] \in {"running", "returned", "raised", "done"}
            /\ job[r] = "done" => handler[r].discarded \in {"returned", "raised"}

\* C14 witness: a request timed out while its function was running, the
\* function returned afterwards and its result was dropped
C14_LateResultDropped ==
    \E r \in Requests :
        /\ handler[r].response = 504
        /\ handler[r].job_at_deadline = "running"
        /\ job[r] = "done"
        /\ handler[r].discarded = "returned"

\* C15: every handler that awaits a vendor call returns to its caller, with
\* a timeout if the vendor call never returns; the batch download routes
\* included.
C15_EveryHandlerReturns ==
    \A r \in Requests : (handler[r].pc = "await") ~> (handler[r].pc = "returned")

----------------------------------------------------------------------------
(* Properties of authentication *)

\* C16: with an empty allow-list every request is accepted, with or without
\* a bearer key; with a non-empty allow-list a request is accepted exactly
\* when it carries a key of the list.
C16_AllowListDecides ==
    auth.pc = "done" =>
        (auth.result = "accepted") <=>
            \/ api_keys = {}
            \/ auth.credentials # None /\ auth.credentials \subseteq api_keys

----------------------------------------------------------------------------
(* Properties of the quote subscription *)

----------------------------------------------------------------------------
(* Properties of connect *)

\* C18: a connect that fails after it has begun its vendor steps leaves
\* nothing behind: the session registry and the vendor-handle map are as
\* before, the trader it started is stopped, and no callback registration
\* made on that trader remains.
C18_FailedConnectUnwinds ==
    \A i \in DOMAIN recent :
        (recent[i].op = "connect_account" /\ recent[i].real /\ ~recent[i].value.success) =>
            /\ recent[i].unchanged
            /\ recent[i].call \notin started_traders
            /\ recent[i].call \notin callback_traders

----------------------------------------------------------------------------
(* Properties of concurrent requests on one session *)

\* C19: in the live modes every session of the registry has a vendor handle
\* in every state, the states in the middle of a connect or of a disconnect
\* included, and a read on a registered session never fails because the
\* handle is missing.
C19_RegisteredSessionHasHandle ==
    _should_use_real_data =>
        /\ DOMAIN connected_accounts \subseteq DOMAIN xt_traders
        /\ \A i \in DOMAIN recent :
              (recent[i].op \in ReadOps /\ recent[i].registered) =>
                  (recent[i].ok \/ recent[i].value.error # "no trader")

\* C20: at most one vendor call is in flight on a vendor handle at any time.
C20_OneCallInFlightPerHandle ==
    \A w1, w2 \in Workers :
        (/\ w1 # w2
         /\ worker[w1].pc = "query_wait"
         /\ worker[w2].pc = "query_wait") => worker[w1].handle # worker[w2].handle

----------------------------------------------------------------------------
(* Properties of the request surfaces *)

\* C21: while a request is in a vendor call, the call is a job of the
\* blocking-call executor and the request has a deadline, on the HTTP surface
\* and on the RPC surface alike.
C21_VendorCallsOnExecutorWithDeadline ==
    \A r \in Requests :
        handler[r].pc \in {"await", "direct"} =>
            /\ job[r] # "none"
            /\ handler[r].deadline

----------------------------------------------------------------------------
(* Properties of the simulated cancel *)

\* the call of worker w returns or raises in this step
Returns(w) == worker[w].pc # "idle" /\ worker'[w].pc = "idle"

----------------------------------------------------------------------------
(* Properties of the enqueue *)

\* the loop runs the oldest coroutine handed to it in this step
RunsPut == loop_ready # <<>> /\ loop_ready' = Tail(loop_ready)

----------------------------------------------------------------------------
(* Properties of the dispatch without a loop *)

\* thread t leaves _dispatch_callback in this step
Dispatched(t) == vthread[t].pc = "lock" /\ vthread'[t].pc = "idle"

\* a step that enqueues nothing, with every dispatching thread able to return
DroppedStep ==
    /\ queues' = queues
    /\ loop_ready' = loop_ready
    /\ \A t \in VendorThreads :
          vthread[t].pc = "lock" => (ENABLED DispatchLocked(t))

\* C24: while the event loop is unset or closed, a dispatch hands nothing to
\* the loop and changes no subscriber queue, and it returns: the vendor
\* thread leaves _dispatch_callback with nothing raised.
C24_DispatchDroppedWithoutLoop ==
    [][(event_loop \in {"unset", "closed"}) => DroppedStep]_vars

\* C24 witness: with the loop closed a callback was dispatched while a
\* stream was subscribed to every account, and the stream has not got it
C24_DroppedAfterLoopClosed ==
    /\ event_loop = "closed"
    /\ \A t \in VendorThreads : vthread[t].pc = "idle"
    /\ \E s \in GlobalStreams, i \in DOMAIN callback_history :
          /\ \A c \in got[s] : c.id # callback_history[i].id
          /\ \A j \in DOMAIN loop_ready : loop_ready[j].data.id # callback_history[i].id

----------------------------------------------------------------------------
(* Properties of the subscriber lock *)

\* C25: dispatch, subscribe, unsubscribe and stop interleave in any way and
\* no thread waits for ever: a vendor thread that reached the lock leaves
\* _dispatch_callback, the loop's thread waiting for the lock in subscribe,
\* unsubscribe or stop() gets through, and the lock is only ever held by a
\* vendor thread that is in its locked section.
C25_NoThreadWaitsForever ==
    /\ [](\A t \in ws_lock : vthread[t].pc = "lock")
    /\ \A t \in VendorThreads : (vthread[t].pc = "lock") ~> (vthread[t].pc = "idle")
    /\ LoopThreadBusy ~> ~LoopThreadBusy

\* C25 witness: a vendor thread is inside the locked section with a full
\* queue among its targets while the loop's thread, in unsubscribe, waits
\* for the lock
C25_ContendedLockFullQueue ==
    \E t \in VendorThreads, s \in StreamIds :
        /\ ws_lock = {t}
        /\ stream[s].pc = "unsubscribing"
        /\ s \in global_queues /\ queue_full(queues[s])

----------------------------------------------------------------------------
(* Properties of the streams' ends *)

\* stream s is in one of the dispatcher's subscriber collections
Subscribed(s) ==
    \/ s \in global_queues
    \/ \E a \in DOMAIN ws_queues : s \in ws_queues[a]

\* C26: after the client of a trading-event stream, WebSocket or RPC, has
\* disconnected, the stream's loop ends and its queue is eventually removed
\* from the dispatcher's subscriber collections.
C26_DisconnectedStreamUnsubscribed ==
    \A s \in StreamIds :
        (s \in client_gone) ~> (stream[s].pc = "closed" /\ ~Subscribed(s))

\* C27: after the dispatcher's stop() the subscriber collections are empty
\* and every stream's consumer loop eventually terminates instead of going
\* on emitting heartbeats.
C27_StopEndsEveryStream ==
    /\ [](stop_pc = "done" => \A s \in StreamIds : ~Subscribed(s))
    /\ (stop_pc = "done") ~> (\A s \in StreamIds : stream[s].pc # "subscribed")

----------------------------------------------------------------------------
(* Properties of the pool's shutdown *)

\* a job that was submitted and has not finished
Outstanding(j) == {r \in Requests : j[r] \in {"queued", "running"}}

\* C28: when the executor shutdown step completes, every job submitted
\* before it has finished (the code has no bounded wait that could expire),
\* and no job submitted after the shutdown is run.
C28_ShutdownDrainsJobs ==
    /\ [][(~executor_shut /\ executor_shut') => Outstanding(job') = {}]_vars
    /\ [](\A r \in late_jobs : job[r] \in {"none", "queued", "cancelled"})

----------------------------------------------------------------------------
(* Properties of the heartbeats *)

IsCallback(item) == item # HeartbeatItem

\* what stream s holds of heartbeats, and of callbacks in their order: sent
\* to the client, in the bridge of an RPC stream, in the stream's queue
StreamItems(s, q, b, d) == d[s] \o b[s] \o q[s]

HeartbeatStep(s) ==
    Len(SelectSeq(StreamItems(s, queues', sync_queue', delivered'), IsHeartbeat))
        > Len(SelectSeq(StreamItems(s, queues, sync_queue, delivered), IsHeartbeat))

\* C29: a heartbeat is made only when the stream's queue is empty, and it
\* neither replaces nor reorders a queued callback: the step that makes it
\* leaves the stream's callbacks, sent and waiting, as they were.
C29_HeartbeatOnlyWhenIdleKeepsCallbacks ==
    [][\A s \in StreamIds :
          HeartbeatStep(s) =>
              /\ queues[s] = <<>> \/ sync_queue[s] = <<>>
              /\ SelectSeq(StreamItems(s, queues', sync_queue', delivered'), IsCallback)
                    = SelectSeq(StreamItems(s, queues, sync_queue, delivered), IsCallback)]_vars

----------------------------------------------------------------------------
(* Properties of the trading WebSocket's envelopes *)

\* the positions of the envelopes of one type written on stream s
EnvelopesAt(s, type) == {i \in DOMAIN sent[s] : sent[s][i].type = type}

\* the items written in "callback" envelopes on stream s, in the order written
CallbackData(s) ==
    LET callbacks == SelectSeq(sent[s], LAMBDA e : e.type = "callback")
    IN [i \in DOMAIN callbacks |-> callbacks[i].data]

\* C30: on a trading WebSocket the first envelope written is "connected";
\* "history" is written at most once and before every "callback" envelope;
\* the "callback" envelopes carry the items in the order they were taken
\* from the stream's queue.
C30_EnvelopeOrder ==
    \A s \in StreamIds :
        /\ sent[s] # <<>> => sent[s][1].type = "connected"
        /\ Cardinality(EnvelopesAt(s, "history")) <= 1
        /\ \A i \in EnvelopesAt(s, "history"), j \in EnvelopesAt(s, "callback") : i < j
        /\ Len(CallbackData(s)) <= Len(delivered[s])
        /\ CallbackData(s) = SubSeq(delivered[s], 1, Len(CallbackData(s)))

\* C30 witness: a connection got "connected", a "history" envelope, a "pong"
\* and two "callback" envelopes, a callback and a heartbeat
C30_HistoryThenCallbacks ==
    \E s \in StreamIds :
        /\ EnvelopesAt(s, "history") # {}
        /\ EnvelopesAt(s, "pong") # {}
        /\ Len(CallbackData(s)) = 2
        /\ \E i \in 1..2 : IsCallback(CallbackData(s)[i])
        /\ \E i \in 1..2 : IsHeartbeat(CallbackData(s)[i])

\* C31: while a stream is open every ping of its client is answered by
\* exactly one pong, whatever else the client has sent before, malformed
\* messages included.
C31_EveryPingAnswered ==
    \A s \in StreamIds :
        Cardinality(EnvelopesAt(s, "pong"))
            = Len(SelectSeq(inbox[s], LAMBDA kind : kind = "ping"))

\* C32: a quote stream opened for a subscription identifier that does not
\* exist gets the "error" envelope and is closed: it never gets a "connected"
\* envelope or a quote, it is never attached, and the step that rejects it
\* changes neither the table of subscriptions nor any subscription's streams
\* and queues.
C32_UnknownSubscriptionRejected ==
    /\ [](\A s \in StreamIds :
            quote_pc[s] = "rejected" =>
                /\ quote_sent[s] = <<Envelope("error", <<>>)>>
                /\ quote_read[s] = <<>>
                /\ s \notin quote_streams)
    /\ [][\A s \in StreamIds :
            (quote_pc[s] = "none" /\ quote_pc'[s] # "none"
                /\ quote_sub'[s] \notin subscriptions)
            => (/\ quote_pc'[s] = "rejected"
                /\ subscriptions' = subscriptions
                /\ qvars' = qvars)]_vars

\* a stream was rejected while another stream of an existing subscription
\* is attached and has been sent a quote
C32_RejectedBesideServedStream ==
    \E s, u \in StreamIds :
        /\ quote_pc[s] = "rejected"
        /\ quote_sub[s] \notin subscriptions
        /\ u \in quote_streams
        /\ quote_read[u] # <<>>

\* C33: once the vendor has fired the disconnected callback on a session's
\* trader and the callback has returned, the session is no longer in the
\* registry, so is_connected on it is false and operations on it find no
\* session.
C33_LostSessionRemoved ==
    (\A t \in VendorThreads : vthread[t].pc = "idle") =>
        \A session_id \in DOMAIN xt_traders :
            xt_traders[session_id] \in lost_traders =>
                ~is_connected(session_id) /\ session_missing(session_id)

\* C34: every enqueue to and dequeue from a subscriber queue runs on the
\* primary loop's thread, for WebSocket and RPC streams alike: a stream whose
\* adapter has taken something from its queue reads it on the thread that
\* writes it.
C34_QueueOnPrimaryThreadOnly ==
    \A s \in StreamIds :
        (delivered[s] # <<>> \/ sync_queue[s] # <<>>) =>
            /\ enqueue_thread(s) = PrimaryThread
            /\ dequeue_thread(s) = PrimaryThread

\* the simulated submit_order calls among the last returned calls
MockSubmits ==
    {i \in DOMAIN recent : recent[i].op = "submit_order" /\ recent[i].ok /\ ~recent[i].real}

\* C35: simulated submit_order calls that ran on executor workers returned
\* pairwise distinct order identifiers, and each of their orders is in the
\* order table, so the table holds at least as many orders as calls returned.
C35_MockOrderIdsDistinct ==
    /\ \A i, j \in MockSubmits :
          i # j => recent[i].value.order_id # recent[j].value.order_id
    /\ \A i \in MockSubmits : recent[i].value.order_id \in DOMAIN orders
    /\ Cardinality(DOMAIN orders) >= Cardinality(MockSubmits)

\* the records of a sequence of callbacks that a stream's filter lets through
MatchingRecords(records, account_id) ==
    {records[i] : i \in {j \in DOMAIN records :
        account_id = NoAccount \/ records[j].account_id = account_id}}

\* the callbacks whose _dispatch_callback has returned
Completed(records) ==
    {c \in records : \A t \in VendorThreads : vthread[t].callback # c}

\* C36: on a trading WebSocket every callback matching the filter that was
\* dispatched after the history snapshot was taken reaches the stream's queue
\* (or is scheduled to), and no callback of the history envelope is also
\* delivered as a live callback.
C36_NoGapNoDuplicate ==
    \A s \in StreamIds : stream[s].pc = "subscribed" =>
        LET F == stream[s].account_id
            after == MatchingRecords(callback_history, F)
                        \ MatchingRecords(stream[s].snapshot, F)
            replayed == MatchingRecords(stream[s].history, NoAccount)
            live == MatchingRecords(delivered[s], NoAccount)
        IN /\ \A c \in Completed(after) :
                 c \in got[s] \/ c.id \in PendingIds(s)
           /\ replayed \cap live = {}

\* C38: a failed submit_order_async or cancel_order_async does not advance
\* the async sequence counter: once no call is in progress the counter equals
\* the number of calls that returned a seq, and the seq values returned are
\* the consecutive integers from 1.
C38_FailedAsyncKeepsCounter ==
    (\A w \in Workers : worker[w].pc = "idle") =>
        /\ async_seq_counter = Cardinality(seq_returned)
        /\ {r.seq : r \in seq_returned} = 1..Cardinality(seq_returned)

\* the sessions through which an order of the table was submitted, as far as
\* the last returned calls tell
Submitters(order_id) ==
    {recent[i].session_id : i \in {j \in MockSubmits : recent[j].value.order_id = order_id}}

\* C37: simulated orders are isolated per session: get_orders(s) lists only
\* orders submitted through s, and a cancel_order issued through s changes
\* the status of no order that was submitted through another session.
C37_OrdersIsolatedPerSession ==
    /\ [](\A i \in DOMAIN recent :
            (recent[i].op = "get_orders" /\ recent[i].ok /\ ~recent[i].real) =>
                \A o \in DOMAIN recent[i].value.orders :
                    Submitters(o) \subseteq {recent[i].session_id})
    /\ [][\A w \in Workers :
            (worker[w].pc = "mock_cancel" /\ worker'[w].pc = "idle") =>
                \A o \in DOMAIN orders :
                    orders'[o] # orders[o] => Submitters(o) \subseteq {worker[w].session_id}]_vars

\* C39: once all n concurrent dispatches have completed, the history holds
\* each of the most recent min(n, _max_history) dispatched records exactly
\* once, and nothing else.
C39_HistoryKeepsMostRecent ==
    (\A t \in VendorThreads : vthread[t].pc = "idle") =>
        LET n == dispatch_count
            k == Min(n, MaxHistory)
        IN /\ Len(callback_history) = k
           /\ \A id \in (n - k + 1)..n :
                 Cardinality({i \in DOMAIN callback_history :
                                 callback_history[i].id = id}) = 1

\* where a queue sits in the subscriber collections
PlacesOf(sets, q) ==
    [accounts |-> {a \in DOMAIN sets.ws : q \in sets.ws[a]}, global |-> q \in sets.global]

\* C40: in every state of the dispatcher, for every new queue and every
\* account filter: subscribe followed by unsubscribe of that queue with the
\* same filter gives back the subscriber collections exactly, a second
\* unsubscribe changes nothing, and neither operation changes where any other
\* queue sits.
C40_SubscribeUnsubscribeInverse ==
    \A q \in StreamIds : stream[q].pc # "subscribed" =>
        \A account_id \in Accounts \cup {NoAccount} :
            LET subscribed == subscribe(SubscriberSets, q, account_id)
                restored == unsubscribe(subscribed, q, account_id)
                again == unsubscribe(restored, q, account_id)
            IN /\ restored = SubscriberSets
               /\ again = restored
               /\ \A r \in StreamIds \ {q} :
                     /\ PlacesOf(subscribed, r) = PlacesOf(SubscriberSets, r)
                     /\ PlacesOf(restored, r) = PlacesOf(SubscriberSets, r)

\* a stream has subscribed and unsubscribed, its account entry is gone, and
\* another stream is subscribed with another filter
C40_ClosedBesideSubscribed ==
    \E q, r \in StreamIds :
        /\ stream[q].pc = "closed"
        /\ stream[q].account_id # NoAccount
        /\ stream[q].account_id \notin DOMAIN ws_queues
        /\ stream[r].pc = "subscribed"
        /\ PlacesOf(SubscriberSets, q) = [accounts |-> {}, global |-> FALSE]

====
